---------------------------- MODULE Spec2Model ----------------------------
(***************************************************************************)
(* A model of the hub's ProcessManager (crates/hub-dashboard) and of the   *)
(* HotkeyRegistry (crates/hub-common), together with the operating-system  *)
(* process table the ProcessManager observes and acts on.                  *)
(***************************************************************************)
EXTENDS Integers, Sequences, FiniteSets, TLC

VARIABLES
    windows,            \* build target: cfg!(windows)
    phase,              \* "new" after ProcessManager::new, "ready" after init_detect_running
    spawned_processes,  \* HashMap<ToolId, Child>: tool -> pid of the child handle
    external_pids,      \* HashMap<ToolId, u32>
    procs,              \* the OS process table: pid -> process
    hotkeys,            \* HotkeyRegistry.hotkeys: Vec<RegisteredHotkey>
    rwlock,             \* AppState.process_manager: the RwLock around the ProcessManager
    cmds,               \* the command invocations in progress, one per thread
    license,            \* license.json: the LicenseConfig on disk
    last                \* the last call made and what it returned / did

vars == <<windows, phase, spawned_processes, external_pids, procs, hotkeys, rwlock, cmds,
          license, last>>

---------------------------------------------------------------------------
(* Bounds of the model *)

MaxTools == 2
MaxPid == 2
\* the number of candidate paths that exist at once, for the locators
MaxFiles == 2
\* the number of lines of a process listing
MaxLines == 3

---------------------------------------------------------------------------
(* ToolCatalog: hub-common/src/tools.rs *)

\* ToolId::all(), enumerated with the command-line tools first
ToolOrder == <<"SpeakSelected", "QuickAssistant", "DeskTalk",
               "FlattenString", "TypoFix", "OcrPaste">>

AllTools == {ToolOrder[i] : i \in 1..Len(ToolOrder)}

\* the identities the model runs with
Tools == {ToolOrder[i] : i \in 1..MaxTools}

binary_name(t) ==
    CASE t = "DeskTalk" -> "desk-talk"
      [] t = "SpeakSelected" -> "speak-selected"
      [] t = "QuickAssistant" -> "quick-assistant"
      [] t = "FlattenString" -> "strflatten"
      [] t = "TypoFix" -> "typo-fix"
      [] t = "OcrPaste" -> "ocrp"

\* Option<T>: None is the empty sequence, Some(x) the one-element sequence
None == <<>>
Some(x) == <<x>>

\* HashMap helpers
Insert(m, k, v) == [x \in DOMAIN m \cup {k} |-> IF x = k THEN v ELSE m[x]]
Remove(m, k) == [x \in DOMAIN m \ {k} |-> m[x]]
EmptyMap == [x \in {} |-> x]

---------------------------------------------------------------------------
(* The operating system *)

Pids == 1..MaxPid

\* the image name the build looks for: "<binary>.exe" on Windows
ExeName(t) == IF windows THEN binary_name(t) \o ".exe" ELSE binary_name(t)

Suffixed(n) == IF windows THEN n \o ".exe" ELSE n

\* an image whose name differs from a tool's only in letter case
MixedCaseName == Suffixed("Speak-Selected")

\* the programs that get started outside the hub
ImageNames == {ExeName(t) : t \in Tools} \cup {MixedCaseName}

\* str::to_lowercase on the image names that occur
to_lowercase(n) == IF n = MixedCaseName THEN Suffixed("speak-selected") ELSE n

\* the processes a process listing shows: exited children still held by a
\* handle are not listed as running images
Listed == {p \in DOMAIN procs : procs[p].st = "alive"}

\* get_all_running_processes: name -> PID, one listing; when several processes
\* share a name the one listed last wins, and the listing order is the OS's.
\* A failed listing yields the empty map.
SnapshotOf(ps) ==
    LET names == {to_lowercase(procs[p].exe) : p \in ps}
    IN  {m \in [names -> ps] : \A n \in names : to_lowercase(procs[m[n]].exe) = n}

get_all_running_processes == SnapshotOf(Listed) \cup {EmptyMap}

\* the lines of a process listing that the parser gets to see: an image name
\* and a PID field, which parses as a u32 (Some) or does not (None, as in a
\* header line)
ListingNames == {Suffixed("speak-selected"), MixedCaseName}

\* the PIDs the listing's lines carry
ListingPids == {1, 2}

ListingLines == [name : ListingNames, pid : {None} \cup {Some(p) : p \in ListingPids}]

Listings == UNION {[1..n -> ListingLines] : n \in 0..MaxLines}

\* the loop of get_all_running_processes that keeps the first PID of a name
RECURSIVE running_processes_first_wins(_)
running_processes_first_wins(stdout) ==
    IF stdout = <<>> THEN EmptyMap
    ELSE LET result == running_processes_first_wins(SubSeq(stdout, 1, Len(stdout) - 1))
             line == stdout[Len(stdout)]
             name == to_lowercase(line.name)
         IN  IF line.pid = None \/ name \in DOMAIN result THEN result
             ELSE [n \in DOMAIN result \cup {name} |->
                      IF n = name THEN line.pid[1] ELSE result[n]]

\* the loop of get_all_running_processes over the lines of the listing, first
\* to last: result.insert(name.to_lowercase(), pid) for every line whose PID
\* field parses; insert replaces the PID the name had
RECURSIVE running_processes_from(_)
running_processes_from(stdout) ==
    IF stdout = <<>> THEN EmptyMap
    ELSE LET result == running_processes_from(SubSeq(stdout, 1, Len(stdout) - 1))
             line == stdout[Len(stdout)]
             name == to_lowercase(line.name)
         IN  IF line.pid = None THEN result
             ELSE [n \in DOMAIN result \cup {name} |->
                      IF n = name THEN line.pid[1] ELSE result[n]]

\* what the probe command of is_process_running (tasklist /FI "PID eq", or
\* kill -0) does: it finds the PID held ("alive"), finds no process under it
\* ("dead"), or cannot be run or is refused ("failed"). It answers for
\* whatever process holds the PID now; a child that has ended and is still
\* held by its handle is found by kill -0 and not by tasklist
ProbeOutcomes(pid) ==
    IF pid \notin DOMAIN procs THEN {"dead", "failed"}
    ELSE IF procs[pid].st = "alive" THEN {"alive", "failed"}
    ELSE {"alive", "dead", "failed"}

\* the bool is_process_running makes of it: unwrap_or(false), Err(_) => false
Answer(o) == o = "alive"

\* is_process_running(pid): a PID probe; it answers for whatever process holds
\* the PID now, and a probe that cannot be run answers false
is_process_running(pid) == {Answer(o) : o \in ProbeOutcomes(pid)}

\* Child::try_wait on the handle of pid. A running child is reported running
\* (waitpid with WNOHANG returns 0, WaitForSingleObject times out); for a child
\* that has ended the call reports the exit, or fails when the OS no longer
\* has the child's status to give (ECHILD)
try_wait(pr, pid) == IF pr[pid].st = "exited" THEN {"Exited", "Err"} ELSE {"Running"}

\* the child was waited for: the OS releases it
Reap(pr, pid) == Remove(pr, pid)

\* the Child value is dropped without a wait: a live process keeps running
DropChild(pr, pid) == IF pr[pid].st = "exited" THEN Remove(pr, pid) ELSE pr


---------------------------------------------------------------------------
(* Configuration: hub-common/src/config.rs *)

HotkeyNames == {"F13", "F14"}
SpecialCodes == {124, 125}

ToolConfigs == [hotkey : {None} \cup {Some(k) : k \in HotkeyNames},
                special_hotkey : {None} \cup {Some(c) : c \in SpecialCodes}]

\* ToolConfig::default()
DefaultToolConfig == [hotkey |-> None, special_hotkey |-> None]

\* u32::to_string on the codes that occur
to_string(c) == CASE c = 124 -> "124" [] c = 125 -> "125"

---------------------------------------------------------------------------
(* ProcessManager: hub-dashboard/src/process_manager.rs *)

OkResult == [ok |-> TRUE, kind |-> "Ok", msg |-> <<>>]
ErrResult(kind, msg) == [ok |-> FALSE, kind |-> kind, msg |-> msg]

\* a call, what it returned and what it did besides changing the maps: the
\* PIDs it spawned, the terminations it issued, each <<how, pid>>, and what it
\* observed on its way
Call(op, tool, res, spawn, kills, obs) ==
    [op |-> op, tool |-> tool, res |-> res, spawn |-> spawn, kills |-> kills, obs |-> obs]

\* add_hotkey_args that looks at the special hotkey before the named one
add_hotkey_args_special_first(t, tool_config) ==
    IF t \in {"DeskTalk", "TypoFix"} THEN <<>>
    ELSE IF tool_config.special_hotkey # None THEN
        IF t \in {"SpeakSelected", "QuickAssistant"}
            THEN <<"--special-ptt-key", to_string(tool_config.special_hotkey[1])>>
        ELSE <<>>
    ELSE IF tool_config.hotkey # None THEN
        IF t \in {"SpeakSelected", "QuickAssistant"}
            THEN <<"--ptt-key", tool_config.hotkey[1]>>
        ELSE IF t \in {"FlattenString", "OcrPaste"}
            THEN <<"--trigger-key", tool_config.hotkey[1]>>
        ELSE <<>>
    ELSE <<>>

\* add_hotkey_args: the flags appended to the command line
add_hotkey_args(t, tool_config) ==
    IF t \in {"DeskTalk", "TypoFix"} THEN <<>>
    ELSE IF tool_config.hotkey # None THEN
        IF t \in {"SpeakSelected", "QuickAssistant"}
            THEN <<"--ptt-key", tool_config.hotkey[1]>>
        ELSE IF t \in {"FlattenString", "OcrPaste"}
            THEN <<"--trigger-key", tool_config.hotkey[1]>>
        ELSE <<>>
    ELSE IF tool_config.special_hotkey # None THEN
        IF t \in {"SpeakSelected", "QuickAssistant"}
            THEN <<"--special-ptt-key", to_string(tool_config.special_hotkey[1])>>
        ELSE <<>>
    ELSE <<>>

\* find_binary: the candidate paths in probe order
Candidates ==
    <<"exe_dir", "exe_dir/tools", "exe_dir/resources/tools",
      "cwd/target/release", "cwd/target/debug",
      "cwd/tools/<folder>/target/release", "cwd/tools/<folder>/target/debug",
      "cwd/../../target/release", "cwd/../../target/debug",
      "cwd/../../tools/<folder>/target/release", "cwd/../../tools/<folder>/target/debug">>

\* the file systems: which candidate paths hold the tool's binary
FileSystems == SUBSET (1..Len(Candidates))

\* find_binary that keeps probing and returns the last candidate that exists
find_binary_last_existing(t, fs) ==
    IF fs = {} THEN None
    ELSE Some(Candidates[CHOOSE i \in fs : \A j \in fs : i >= j])

\* find_binary: the first candidate that exists, or None
find_binary(t, fs) ==
    IF fs = {} THEN None
    ELSE Some(Candidates[CHOOSE i \in fs : \A j \in fs : i <= j])

\* ToolRegistry::find_binary: the cached binary_path when it is set and still
\* exists, else the hub executable's directory, else its tools subdirectory,
\* else None; exists is whether the cached path exists, fs as for find_binary
ToolRegistry_find_binary(binary_path, exists, fs) ==
    IF binary_path # None /\ exists THEN binary_path
    ELSE IF 1 \in fs THEN Some(Candidates[1])
    ELSE IF 2 \in fs THEN Some(Candidates[2])
    ELSE None

\* the cached paths of a ToolInfo: binary_path is None or some path
CachedPaths == {None, Some("cached")}

\* the file systems with at most MaxFiles of the candidate paths present
SmallFileSystems == {fs \in FileSystems : Cardinality(fs) <= MaxFiles}

\* what find_binary may return, over all file systems
LocateOutcomes == [t \in AllTools |-> {find_binary(t, fs) : fs \in FileSystems}]

\* stderr.lines().take(5)
Take(lines, n) == IF Len(lines) <= n THEN lines ELSE SubSeq(lines, 1, n)

TakeLines == 5

\* what a child that exits at once may leave behind
StderrOutputs == {<<>>, <<"boom", "e2", "e3", "e4", "e5", "e6">>}
ExitCodes == {None, Some(1)}

\* format!("{:?}", exit_status.code())
DebugCode(code) == IF code = None THEN "None" ELSE "Some(1)"

\* the diagnostic of a child that exited within the grace window
ExitDiagnostic(stderr_output, code) ==
    IF stderr_output # <<>>
        THEN Take(stderr_output, TakeLines)
        ELSE <<"Process exited with code " \o DebugCode(code)>>

\* what start did on its way, besides what it returned: the records it
\* cleared (sp and ex are the maps as start has left them so far), and what it
\* read of the child it spawned when the re-check reported the child's exit;
\* failed names the liveness checks on the tool's record that could not be
\* completed
StartObs(t, sp, ex, exit, failed) ==
    [exit |-> exit,
     failed |-> failed,
     cleared |-> (IF t \in DOMAIN spawned_processes /\ t \notin DOMAIN sp
                    THEN {"owned"} ELSE {}) \cup
                 (IF t \in DOMAIN external_pids /\ t \notin DOMAIN ex
                    THEN {"external"} ELSE {})]

\* AfterGrace that spawns the tool a second time when the first child has
\* ended within the grace window
AfterGraceRetrying(t, sp, ex, pr1, pid, w, exit, failed) ==
    CASE w = "Exited" ->
           \E pid2 \in Pids \ DOMAIN Reap(pr1, pid) :
              /\ spawned_processes' = Insert(sp, t, pid2)
              /\ external_pids' = ex
              /\ procs' = Insert(Reap(pr1, pid), pid2, [pr1[pid] EXCEPT !.st = "alive"])
              /\ last' = Call("start", t, OkResult, {pid, pid2}, {},
                              StartObs(t, sp, ex, None, failed))
      [] w = "Running" ->
           /\ spawned_processes' = Insert(sp, t, pid)
           /\ external_pids' = ex
           /\ procs' = pr1
           /\ last' = Call("start", t, OkResult, {pid}, {}, StartObs(t, sp, ex, exit, failed))
      [] w = "Err" ->
           /\ spawned_processes' = sp
           /\ external_pids' = ex
           /\ procs' = DropChild(pr1, pid)
           /\ last' = Call("start", t,
                           ErrResult("CheckFailed", <<"Failed to check process status">>),
                           {pid}, {}, StartObs(t, sp, ex, exit, failed))

\* AfterGrace without the re-check: the child is recorded whatever became of it
AfterGraceRecordsAnyway(t, sp, ex, pr1, pid, w, exit, failed) ==
    /\ spawned_processes' = Insert(sp, t, pid)
    /\ external_pids' = ex
    /\ procs' = pr1
    /\ last' = Call("start", t, OkResult, {pid}, {}, StartObs(t, sp, ex, exit, failed))

\* AfterGrace that, when the re-check fails, keeps the PID as a weak record
AfterGraceKeepsPid(t, sp, ex, pr1, pid, w, exit, failed) ==
    CASE w = "Exited" ->
           /\ spawned_processes' = sp
           /\ external_pids' = ex
           /\ procs' = Reap(pr1, pid)
           /\ last' = Call("start", t,
                           ErrResult("Exited", ExitDiagnostic(exit[1].stderr, exit[1].code)),
                           {pid}, {}, StartObs(t, sp, ex, exit, failed))
      [] w = "Running" ->
           /\ spawned_processes' = Insert(sp, t, pid)
           /\ external_pids' = ex
           /\ procs' = pr1
           /\ last' = Call("start", t, OkResult, {pid}, {}, StartObs(t, sp, ex, exit, failed))
      [] w = "Err" ->
           /\ spawned_processes' = sp
           /\ external_pids' = Insert(ex, t, pid)
           /\ procs' = DropChild(pr1, pid)
           /\ last' = Call("start", t,
                           ErrResult("CheckFailed", <<"Failed to check process status">>),
                           {pid}, {}, StartObs(t, sp, ex, exit, failed))

\* lines 116-144: the re-check after the grace window. w is what try_wait
\* reports, exit what the child left behind if it has ended
AfterGrace(t, sp, ex, pr1, pid, w, exit, failed) ==
    CASE w = "Exited" ->
           /\ spawned_processes' = sp
           /\ external_pids' = ex
           /\ procs' = Reap(pr1, pid)
           /\ last' = Call("start", t,
                           ErrResult("Exited", ExitDiagnostic(exit[1].stderr, exit[1].code)),
                           {pid}, {}, StartObs(t, sp, ex, exit, failed))
      [] w = "Running" ->
           /\ spawned_processes' = Insert(sp, t, pid)
           /\ external_pids' = ex
           /\ procs' = pr1
           /\ last' = Call("start", t, OkResult, {pid}, {}, StartObs(t, sp, ex, exit, failed))
      [] w = "Err" ->
           /\ spawned_processes' = sp
           /\ external_pids' = ex
           /\ procs' = DropChild(pr1, pid)
           /\ last' = Call("start", t,
                           ErrResult("CheckFailed", <<"Failed to check process status">>),
                           {pid}, {}, StartObs(t, sp, ex, exit, failed))

\* lines 108-114: spawn the child and sleep through the grace window, in
\* which the child may end; exit is what start reads of a child whose exit the
\* re-check reports (its standard error and exit code)
SpawnAndCheck(t, tool_config, sp, ex, pr, failed) ==
    \/ \* Command::spawn fails
       /\ spawned_processes' = sp
       /\ external_pids' = ex
       /\ procs' = pr
       /\ last' = Call("start", t, ErrResult("SpawnError", <<"Failed to spawn">>), {}, {},
                       StartObs(t, sp, ex, None, failed))
    \/ \E pid \in Pids \ DOMAIN pr, st \in {"alive", "exited"} :
         LET child == [exe |-> ExeName(t), child |-> TRUE, via |-> "start", st |-> st,
                       args |-> add_hotkey_args(t, tool_config)]
             pr1 == Insert(pr, pid, child)
         IN  \E w \in try_wait(pr1, pid) :
             \E exit \in IF w = "Exited"
                            THEN {Some([stderr |-> e, code |-> c]) :
                                    e \in StderrOutputs, c \in ExitCodes}
                            ELSE {None} :
                AfterGrace(t, sp, ex, pr1, pid, w, exit, failed)

\* lines 68-71: locate the binary, give up when there is none
LocateAndSpawn(t, tool_config, sp, ex, pr, failed) ==
    \E found \in {binary_path # None : binary_path \in LocateOutcomes[t]} :
        IF found
          THEN SpawnAndCheck(t, tool_config, sp, ex, pr, failed)
          ELSE /\ spawned_processes' = sp
               /\ external_pids' = ex
               /\ procs' = pr
               /\ last' = Call("start", t,
                               ErrResult("BinaryNotFound", <<"Could not find binary">>),
                               {}, {}, StartObs(t, sp, ex, None, failed))

\* CheckExternal that trusts the record instead of asking the OS
CheckExternalTrustsRecord(t, tool_config, sp, pr, failed) ==
    IF t \in DOMAIN external_pids
      THEN /\ spawned_processes' = sp
           /\ external_pids' = external_pids
           /\ procs' = pr
           /\ last' = Call("start", t, OkResult, {}, {},
                           StartObs(t, sp, external_pids, None, failed))
      ELSE LocateAndSpawn(t, tool_config, sp, external_pids, pr, failed)

\* lines 59-66: an external record is re-checked with the OS
CheckExternal(t, tool_config, sp, pr, failed) ==
    IF t \in DOMAIN external_pids
      THEN \E o \in ProbeOutcomes(external_pids[t]) :
             IF Answer(o)
               THEN /\ spawned_processes' = sp
                    /\ external_pids' = external_pids
                    /\ procs' = pr
                    /\ last' = Call("start", t, OkResult, {}, {},
                                    StartObs(t, sp, external_pids, None, failed))
               ELSE LocateAndSpawn(t, tool_config, sp, Remove(external_pids, t), pr,
                                   failed \cup (IF o = "failed" THEN {"external probe"}
                                                                ELSE {}))
      ELSE LocateAndSpawn(t, tool_config, sp, external_pids, pr, failed)

\* start_tool_with_config without the look at spawned_processes
start_without_owned_check(t, tool_config) ==
    CheckExternal(t, tool_config, spawned_processes, procs, {})

\* start_tool_with_config that, when the re-check of its child fails, keeps
\* the PID as an external record instead of dropping the handle
start_demoting_on_error(t, tool_config) ==
    IF t \in DOMAIN spawned_processes
      THEN \E w \in try_wait(procs, spawned_processes[t]) :
             CASE w = "Running" ->
                    /\ UNCHANGED <<spawned_processes, external_pids, procs>>
                    /\ last' = Call("start", t, OkResult, {}, {},
                                    StartObs(t, spawned_processes, external_pids, None, {}))
               [] w = "Exited" ->
                    CheckExternal(t, tool_config, Remove(spawned_processes, t),
                                  Reap(procs, spawned_processes[t]), {})
               [] w = "Err" ->
                    /\ spawned_processes' = Remove(spawned_processes, t)
                    /\ external_pids' = Insert(external_pids, t, spawned_processes[t])
                    /\ procs' = procs
                    /\ last' = Call("start", t, OkResult, {}, {},
                                    StartObs(t, Remove(spawned_processes, t), external_pids, None,
                                             {"owned check"}))
      ELSE CheckExternal(t, tool_config, spawned_processes, procs, {})

\* start_tool_with_config that takes any Owned record for a running tool
start_trusting_owned_record(t, tool_config) ==
    IF t \in DOMAIN spawned_processes
      THEN /\ UNCHANGED <<spawned_processes, external_pids, procs>>
           /\ last' = Call("start", t, OkResult, {}, {},
                           StartObs(t, spawned_processes, external_pids, None, {}))
      ELSE CheckExternal(t, tool_config, spawned_processes, procs, {})

\* start_tool_with_config, lines 40-57 first: a child of ours is re-checked
start_tool_with_config(t, tool_config) ==
    IF t \in DOMAIN spawned_processes
      THEN \E w \in try_wait(procs, spawned_processes[t]) :
             CASE w = "Running" ->
                    /\ UNCHANGED <<spawned_processes, external_pids, procs>>
                    /\ last' = Call("start", t, OkResult, {}, {},
                                    StartObs(t, spawned_processes, external_pids, None, {}))
               [] w = "Exited" ->
                    CheckExternal(t, tool_config, Remove(spawned_processes, t),
                                  Reap(procs, spawned_processes[t]), {})
               [] w = "Err" ->
                    CheckExternal(t, tool_config, Remove(spawned_processes, t),
                                  DropChild(procs, spawned_processes[t]), {"owned check"})
      ELSE CheckExternal(t, tool_config, spawned_processes, procs, {})

\* ProcessManager::start_tool: start with the default configuration
StartTool(t) ==
    /\ phase = "ready"
    /\ start_tool_with_config(t, DefaultToolConfig)
    /\ UNCHANGED <<windows, license, rwlock, cmds, phase, hotkeys>>

\* tauri command start_tool (and auto_start_tools): start with the
\* configuration the tool has in HubConfig at that moment
StartToolCommand(t) ==
    /\ phase = "ready"
    /\ \E tool_config \in ToolConfigs : start_tool_with_config(t, tool_config)
    /\ UNCHANGED <<windows, license, rwlock, cmds, phase, hotkeys>>

\* add_hotkey_args applied to a tool and a configuration: the arguments it
\* appends to the command
AddHotkeyArgs(t, tool_config) ==
    /\ last' = Call("add_hotkey_args", t, OkResult, {}, {},
                    [tool_config |-> tool_config, args |-> add_hotkey_args(t, tool_config)])
    /\ UNCHANGED <<windows, license, rwlock, cmds, phase, spawned_processes, external_pids, procs,
                   hotkeys>>

\* the OS ends process pid: a child whose handle is still held stays as an
\* exited, unreaped process; any other process leaves the table
ExitProc(pr, sp, pid) ==
    IF \E t \in DOMAIN sp : sp[t] = pid
      THEN [pr EXCEPT ![pid].st = "exited"]
      ELSE Remove(pr, pid)

\* a state of the manager and of the process table while a call runs
PmState(sp, ex, pr, kills, path) ==
    [sp |-> sp, ex |-> ex, pr |-> pr, kills |-> kills, path |-> path]

\* Child::kill, whose result stop_tool drops (let _ =): it fails when the
\* process is no longer there to be killed, or may not be signalled
kill(pr, pid) == {"Ok", "Err"}

\* StopOwned that lets go of the handle after the wait without killing
StopOwnedWithoutKill(t, s) ==
    LET pid == s.sp[t]
        sp1 == Remove(s.sp, t)
        asked == IF windows THEN {<<"graceful", pid>>} ELSE {}
        after == {s.pr} \cup {[s.pr EXCEPT ![pid].st = "exited"]}
    IN  UNION { {
          IF w = "Exited"
            THEN PmState(sp1, s.ex, Reap(pr1, pid), s.kills \cup asked,
                         s.path \cup {"owned"})
            ELSE PmState(sp1, s.ex, DropChild(pr1, pid), s.kills \cup asked,
                         s.path \cup {"owned"})
          : w \in try_wait(pr1, pid) } : pr1 \in after }

\* stop_tool, lines 189-214: a child of ours. The handle is taken out of the
\* map first; taskkill (Windows only) asks the process to end; after the wait
\* the handle is re-checked, and unless it reports an exit the child is
\* killed and waited for: child.wait() returns once the process is gone,
\* whether the kill went through or not.
StopOwned(t, s) ==
    LET pid == s.sp[t]
        sp1 == Remove(s.sp, t)
        asked == IF windows THEN {<<"graceful", pid>>} ELSE {}
        \* during the wait the process may exit, on request or by itself
        after == {s.pr} \cup {[s.pr EXCEPT ![pid].st = "exited"]}
    IN  UNION { UNION {
          IF w = "Exited"
            THEN {PmState(sp1, s.ex, Reap(pr1, pid), s.kills \cup asked,
                          s.path \cup {"owned"})}
            ELSE {PmState(sp1, s.ex, Remove(pr1, pid),
                          s.kills \cup asked \cup {<<"kill", pid>>},
                          s.path \cup {"owned"} \cup
                            (IF k = "Err" THEN {"kill failed"} ELSE {}))
                    : k \in kill(pr1, pid)}
          : w \in try_wait(pr1, pid) } : pr1 \in after }

\* StopExternal that forgets every External record, not only the tool's
StopExternalForgettingAll(t, s) ==
    LET pid == s.ex[t]
        failed == PmState(s.sp, EmptyMap, s.pr, s.kills \cup {<<"force", pid>>},
                          s.path \cup {"external", "kill failed"})
    IN  IF windows
          THEN {failed} \cup
               (IF pid \in DOMAIN s.pr /\ s.pr[pid].st = "alive"
                  THEN {PmState(s.sp, EmptyMap, ExitProc(s.pr, s.sp, pid),
                                s.kills \cup {<<"force", pid>>},
                                s.path \cup {"external"})}
                  ELSE {})
          ELSE {PmState(s.sp, EmptyMap, s.pr, s.kills, s.path \cup {"external"})}

\* stop_tool, lines 216-227: an external record. taskkill /F (Windows only)
\* is issued against the recorded PID; it ends the process that holds the
\* PID, or fails (no such process, access denied), and its result is dropped
\* (let _ =); the record goes.
StopExternal(t, s) ==
    LET pid == s.ex[t]
        ex1 == Remove(s.ex, t)
        failed == PmState(s.sp, ex1, s.pr, s.kills \cup {<<"force", pid>>},
                          s.path \cup {"external", "kill failed"})
    IN  IF windows
          THEN {failed} \cup
               (IF pid \in DOMAIN s.pr /\ s.pr[pid].st = "alive"
                  THEN {PmState(s.sp, ex1, ExitProc(s.pr, s.sp, pid),
                                s.kills \cup {<<"force", pid>>},
                                s.path \cup {"external"})}
                  ELSE {})
          ELSE {PmState(s.sp, ex1, s.pr, s.kills, s.path \cup {"external"})}

\* stop_tool that, finding no record, terminates by executable name
stop_tool_by_name(t, s) ==
    IF t \in DOMAIN s.sp THEN StopOwned(t, s)
    ELSE IF t \in DOMAIN s.ex THEN StopExternal(t, s)
    ELSE LET named == {p \in DOMAIN s.pr : /\ s.pr[p].st = "alive"
                                           /\ to_lowercase(s.pr[p].exe) = to_lowercase(ExeName(t))}
         IN  {[s EXCEPT !.kills = @ \cup {<<"force", p>> : p \in named},
                        !.pr = [q \in DOMAIN s.pr \ named |-> s.pr[q]],
                        !.path = @ \cup {"not running"}]}

\* stop_tool that puts the record back when its termination failed
stop_tool_keeping_failed(t, s) ==
    LET left == IF t \in DOMAIN s.sp THEN StopOwned(t, s)
                ELSE IF t \in DOMAIN s.ex THEN StopExternal(t, s)
                ELSE {[s EXCEPT !.path = @ \cup {"not running"}]}
    IN  {IF "kill failed" \in r.path /\ t \in DOMAIN s.ex
           THEN [r EXCEPT !.ex = s.ex] ELSE r : r \in left}

\* stop_tool: the states it may leave; it returns Ok(()) on every path
stop_tool(t, s) ==
    IF t \in DOMAIN s.sp THEN StopOwned(t, s)
    ELSE IF t \in DOMAIN s.ex THEN StopExternal(t, s)
    ELSE {[s EXCEPT !.path = @ \cup {"not running"}]}

CurrentState == PmState(spawned_processes, external_pids, procs, {}, {})

StopTool(t) ==
    /\ phase = "ready"
    /\ \E s \in stop_tool(t, CurrentState) :
         /\ spawned_processes' = s.sp
         /\ external_pids' = s.ex
         /\ procs' = s.pr
         /\ last' = Call("stop", t, OkResult, {}, s.kills, s.path)
    /\ UNCHANGED <<windows, license, rwlock, cmds, phase, hotkeys>>

\* stop_all: stop_tool for every key of spawned_processes
RECURSIVE StopEach(_, _)
StopEach(ts, s) ==
    IF ts = {} THEN {s}
    ELSE LET t == CHOOSE x \in ts : TRUE
         IN  UNION {StopEach(ts \ {t}, s1) : s1 \in stop_tool(t, s)}

\* stop_all over every tool that has a record of either kind
stop_all_records(s) == StopEach(DOMAIN s.sp \cup DOMAIN s.ex, s)

stop_all(s) == StopEach(DOMAIN s.sp, s)

StopAll ==
    /\ phase = "ready"
    /\ \E s \in stop_all(CurrentState) :
         /\ spawned_processes' = s.sp
         /\ external_pids' = s.ex
         /\ procs' = s.pr
         /\ last' = Call("stop_all", "-", OkResult, {}, s.kills, s.path)
    /\ UNCHANGED <<windows, license, rwlock, cmds, phase, hotkeys>>

\* a drop that stops what the hub spawned before the maps go
drop_stopping_all(s) ==
    {PmState(EmptyMap, EmptyMap, s1.pr, s1.kills, s1.path) : s1 \in stop_all(s)}

\* impl Drop for ProcessManager, an empty body: the two maps go and with
\* them the Child handles, whose own drop neither kills nor waits
ProcessManager_drop(s) == {PmState(EmptyMap, EmptyMap, s.pr, {}, {})}

\* the records the hub held when it exited
Dropped(sp, ex) == [spawned_processes |-> sp, external_pids |-> ex]

\* handle_menu_event: "show" brings the window up, "quit" is app.exit(0),
\* with which the process ends and its ProcessManager is dropped; any other
\* id does nothing
handle_menu_event(id) ==
    /\ phase = "ready"
    /\ IF id = "quit"
         THEN \E s \in ProcessManager_drop(CurrentState) :
                 /\ phase' = "exited"
                 /\ spawned_processes' = s.sp
                 /\ external_pids' = s.ex
                 /\ procs' = s.pr
                 /\ last' = Call("quit", "-", OkResult, {}, s.kills,
                                 Dropped(spawned_processes, external_pids))
         ELSE /\ last' = Call(id, "-", OkResult, {}, {}, None)
              /\ UNCHANGED <<phase, spawned_processes, external_pids, procs>>
    /\ UNCHANGED <<windows, license, rwlock, cmds, hotkeys>>

\* get_status that asks the OS whether an external record's PID is alive
get_status_probing(t) ==
    IF t \in DOMAIN spawned_processes THEN "Running"
    ELSE IF /\ t \in DOMAIN external_pids
            /\ external_pids[t] \in DOMAIN procs
            /\ procs[external_pids[t]].st = "alive" THEN "Running"
    ELSE "Stopped"

\* get_status: a read of the two maps
get_status(t) ==
    IF t \in DOMAIN spawned_processes THEN "Running"
    ELSE IF t \in DOMAIN external_pids THEN "Running"
    ELSE "Stopped"

\* a caller reads the status of a tool: &self, no map is written
GetStatus(t) ==
    /\ phase = "ready"
    /\ last' = Call("status", t, OkResult, {}, {}, get_status(t))
    /\ UNCHANGED <<windows, license, rwlock, cmds, phase, spawned_processes, external_pids, procs, hotkeys>>

\* refresh_statuses that decides by a process listing instead of the handles
refresh_by_listing ==
    \E running \in get_all_running_processes :
      LET exited_spawned == {t \in DOMAIN spawned_processes :
                               to_lowercase(ExeName(t)) \notin DOMAIN running}
          gone == {spawned_processes[t] : t \in exited_spawned}
      IN  /\ spawned_processes' =
                 [t \in DOMAIN spawned_processes \ exited_spawned |-> spawned_processes[t]]
          /\ procs' = [p \in {q \in DOMAIN procs :
                                q \in gone => procs[q].st = "alive"} |-> procs[p]]
          /\ last' = Call("refresh", "-", OkResult, {}, {},
                          [exited_spawned |-> exited_spawned, failed |-> {}])

\* refresh_statuses that keeps the record of a tool whose check failed
refresh_keeps_on_error ==
    \E w \in [DOMAIN spawned_processes -> {"Exited", "Running", "Err"}] :
      /\ \A t \in DOMAIN spawned_processes : w[t] \in try_wait(procs, spawned_processes[t])
      /\ LET exited_spawned == {t \in DOMAIN spawned_processes : w[t] = "Exited"}
             gone == {spawned_processes[t] : t \in exited_spawned}
         IN  /\ spawned_processes' =
                    [t \in DOMAIN spawned_processes \ exited_spawned |-> spawned_processes[t]]
             /\ procs' = [p \in {q \in DOMAIN procs :
                                   q \in gone => procs[q].st = "alive"} |-> procs[p]]
             /\ last' = Call("refresh", "-", OkResult, {}, {},
                             [exited_spawned |-> exited_spawned,
                              failed |-> {t \in DOMAIN spawned_processes : w[t] = "Err"}])

\* refresh_statuses: try_wait on every child; the ones that report an exit,
\* or whose check fails, are removed. The call returns nothing; exited_spawned
\* and the tools whose check failed are kept as what it observed
refresh_statuses ==
    \E w \in [DOMAIN spawned_processes -> {"Exited", "Running", "Err"}] :
      /\ \A t \in DOMAIN spawned_processes : w[t] \in try_wait(procs, spawned_processes[t])
      /\ LET exited_spawned == {t \in DOMAIN spawned_processes : w[t] # "Running"}
             gone == {spawned_processes[t] : t \in exited_spawned}
         IN  /\ spawned_processes' =
                    [t \in DOMAIN spawned_processes \ exited_spawned |-> spawned_processes[t]]
             /\ procs' = [p \in {q \in DOMAIN procs :
                                   q \in gone => procs[q].st = "alive"} |-> procs[p]]
             /\ last' = Call("refresh", "-", OkResult, {}, {},
                             [exited_spawned |-> exited_spawned,
                              failed |-> {t \in DOMAIN spawned_processes : w[t] = "Err"}])

\* RefreshStatuses that also drops the External records whose PID is not listed
RefreshAlsoExternal ==
    /\ phase = "ready"
    /\ refresh_statuses
    /\ external_pids' = [t \in {x \in DOMAIN external_pids : external_pids[x] \in Listed}
                            |-> external_pids[t]]
    /\ UNCHANGED <<windows, license, rwlock, cmds, phase, hotkeys>>

RefreshStatuses ==
    /\ phase = "ready"
    /\ refresh_statuses
    /\ UNCHANGED <<windows, license, rwlock, cmds, phase, external_pids, hotkeys>>

\* the key full_scan and detect_running_tools look a tool up under
ScanKey(t) == to_lowercase(ExeName(t))

\* StillRunning that clears a record only when the name runs under another PID
StillRunningUnlessReplaced(running, ex) ==
    [t \in {x \in DOMAIN ex : ScanKey(x) \in DOMAIN running => running[ScanKey(x)] = ex[x]}
        |-> ex[t]]

\* StillRunning that goes by the name alone, whatever PID the snapshot lists
StillRunningByName(running, ex) ==
    [t \in {x \in DOMAIN ex : ScanKey(x) \in DOMAIN running} |-> ex[t]]

\* full_scan, lines 279-298: external records the snapshot does not bear out
StillRunning(running, ex) ==
    [t \in {x \in DOMAIN ex : ScanKey(x) \in DOMAIN running /\ running[ScanKey(x)] = ex[x]}
        |-> ex[t]]

\* Adopt without the look at spawned_processes
AdoptOverOwned(running, sp, ex) ==
    [t \in DOMAIN ex \cup {x \in AllTools :
                              /\ x \notin DOMAIN ex
                              /\ ScanKey(x) \in DOMAIN running}
        |-> IF t \in DOMAIN ex THEN ex[t] ELSE running[ScanKey(t)]]

\* lines 300-313 and 321-338: adopt what runs under a tool's name, unless the
\* tool already has a record
Adopt(running, sp, ex) ==
    [t \in DOMAIN ex \cup {x \in AllTools :
                              /\ x \notin DOMAIN sp
                              /\ x \notin DOMAIN ex
                              /\ ScanKey(x) \in DOMAIN running}
        |-> IF t \in DOMAIN ex THEN ex[t] ELSE running[ScanKey(t)]]

\* full_scan without its first loop: records are created, none is cleared
full_scan_adopting_only(running) ==
    /\ external_pids' = Adopt(running, spawned_processes, external_pids)
    /\ last' = Call("scan", "-", OkResult, {}, {},
                    [running |-> running, exited_external |-> {},
                     adopted |-> DOMAIN Adopt(running, spawned_processes, external_pids)
                                   \ DOMAIN external_pids])

\* full_scan without its second loop: records are cleared, none is created
full_scan_without_adoption(running) ==
    /\ external_pids' = StillRunning(running, external_pids)
    /\ last' = Call("scan", "-", OkResult, {}, {},
                    [running |-> running,
                     exited_external |->
                        DOMAIN external_pids \ DOMAIN StillRunning(running, external_pids),
                     adopted |-> {}])

\* full_scan: the snapshot it took, the records it found gone and the tools
\* it inserted a record for are kept as what the call observed
full_scan(running) ==
    /\ external_pids' = Adopt(running, spawned_processes, StillRunning(running, external_pids))
    /\ last' = Call("scan", "-", OkResult, {}, {},
                    [running |-> running,
                     exited_external |->
                        DOMAIN external_pids \ DOMAIN StillRunning(running, external_pids),
                     adopted |->
                        DOMAIN Adopt(running, spawned_processes,
                                     StillRunning(running, external_pids))
                          \ DOMAIN StillRunning(running, external_pids)])

FullScan ==
    /\ phase = "ready"
    /\ \E running \in get_all_running_processes : full_scan(running)
    /\ UNCHANGED <<windows, license, rwlock, cmds, phase, spawned_processes, procs, hotkeys>>

detect_running_tools(running) ==
    /\ external_pids' = Adopt(running, spawned_processes, external_pids)
    /\ last' = Call("detect", "-", OkResult, {}, {},
                    [running |-> running, exited_external |-> {},
                     adopted |-> DOMAIN Adopt(running, spawned_processes, external_pids)
                                   \ DOMAIN external_pids])

\* AppState::new: ProcessManager::new() followed by init_detect_running()
InitDetectRunning ==
    /\ phase = "new"
    /\ phase' = "ready"
    /\ \E running \in get_all_running_processes : detect_running_tools(running)
    /\ UNCHANGED <<windows, license, rwlock, cmds, spawned_processes, procs, hotkeys>>

---------------------------------------------------------------------------
(* The settings command: hub-dashboard/src/tauri_commands.rs *)

\* the tools that have a settings window
GuiTools == {"DeskTalk", "TypoFix"}

\* find_tool_binary: the candidate paths in probe order
ToolBinaryCandidates ==
    <<"exe_dir", "exe_dir/tools", "exe_dir/resources/tools",
      "cwd/target/release", "cwd/target/debug",
      "cwd/../../target/release", "cwd/../../target/debug">>

\* find_tool_binary: the first candidate that exists, or None
find_tool_binary(fs) ==
    IF fs = {} THEN None
    ELSE Some(ToolBinaryCandidates[CHOOSE i \in fs : \A j \in fs : i <= j])

\* what find_tool_binary may return, over all file systems
ToolBinaryOutcomes ==
    {find_tool_binary(fs) : fs \in SUBSET (1..Len(ToolBinaryCandidates))}

\* open_tool_settings: launches the tool's binary and lets go of the Child; the
\* ProcessManager is read-locked and none of its maps is written
open_tool_settings(t) ==
    IF t \notin GuiTools
      THEN /\ procs' = procs
           /\ last' = Call("settings", t,
                           ErrResult("NoSettingsWindow", <<"doesn't have a settings window">>),
                           {}, {}, None)
      ELSE \E found \in {binary_path # None : binary_path \in ToolBinaryOutcomes} :
             IF ~found
               THEN /\ procs' = procs
                    /\ last' = Call("settings", t,
                                    ErrResult("BinaryNotFound", <<"Could not find binary">>),
                                    {}, {}, None)
               ELSE \/ /\ procs' = procs
                       /\ last' = Call("settings", t,
                                       ErrResult("SpawnError", <<"Failed to launch">>),
                                       {}, {}, None)
                    \/ \E pid \in Pids \ DOMAIN procs :
                         /\ procs' = Insert(procs, pid,
                                            [exe |-> ExeName(t), child |-> TRUE,
                                             via |-> "settings", st |-> "alive",
                                             args |-> <<>>])
                         /\ last' = Call("settings", t, OkResult, {pid}, {}, None)

OpenToolSettings(t) ==
    /\ phase = "ready"
    /\ open_tool_settings(t)
    /\ UNCHANGED <<windows, license, rwlock, cmds, phase, spawned_processes, external_pids, hotkeys>>

---------------------------------------------------------------------------
(* HotkeyRegistry: hub-common/src/hotkeys.rs *)

MaxHotkeys == 2

\* HotkeyKey: a named key, or an opaque scan code
Named(n) == [type |-> "Named", value |-> n]
Unknown(code) == [type |-> "Unknown", value |-> code]

\* the key values, modifier lists and action names the calls are made with:
\* F13 and the scan code it has on Windows; Ctrl+Alt in both orders
HotkeyKeys == {Named("F13"), Unknown("124")}
ModifierLists == {<<>>, <<"Ctrl", "Alt">>, <<"Alt", "Ctrl">>}
ActionNames == {"push-to-talk", "trigger"}

\* the tools that own entries: the two that take a push-to-talk key
HotkeyOwners == {"SpeakSelected", "QuickAssistant"}

RegisteredHotkey(tool_id, action_name, key, modifiers) ==
    [tool_id |-> tool_id, action_name |-> action_name, key |-> key, modifiers |-> modifiers]

\* Matches that compares the key alone
MatchesKeyOnly(h, key, modifiers) == h.key = key

\* the closure of find_conflict, and the complement of the one of unregister:
\* the key is equal and the modifier vectors are equal
Matches(h, key, modifiers) == h.key = key /\ h.modifiers = modifiers

\* find_conflict: the first entry with that key and those modifiers
find_conflict(hs, key, modifiers) ==
    LET hits == {i \in 1..Len(hs) : Matches(hs[i], key, modifiers)}
    IN  IF hits = {} THEN None
        ELSE Some(hs[CHOOSE i \in hits : \A j \in hits : i <= j])

\* a call on the registry: its arguments, what it returned, the entries it
\* found, and for unregister whether it comes right after a register of the
\* same key and modifiers
HotkeyCall(op, args, res, before, after) ==
    [op |-> op, args |-> args, res |-> res, before |-> before, after |-> after]

HotkeyConflict(existing) == [ok |-> FALSE, kind |-> "Conflict", existing |-> existing]

\* register: Err(HotkeyConflict) when find_conflict finds an entry, else push
register(tool_id, action_name, key, modifiers) ==
    LET conflict == find_conflict(hotkeys, key, modifiers)
        args == RegisteredHotkey(tool_id, action_name, key, modifiers)
    IN  IF conflict # None
          THEN /\ hotkeys' = hotkeys
               /\ last' = HotkeyCall("register", args, HotkeyConflict(conflict[1]),
                                     hotkeys, "-")
          ELSE /\ Len(hotkeys) < MaxHotkeys
               /\ hotkeys' = Append(hotkeys, args)
               /\ last' = HotkeyCall("register", args, OkResult, hotkeys, "-")

\* UnregisterKeeps that compares the key alone
UnregisterKeepsOtherKeys(h, key, modifiers) == h.key # key

\* the closure of unregister: another key, or other modifiers
UnregisterKeeps(h, key, modifiers) == h.key # key \/ h.modifiers # modifiers

\* unregister: Vec::retain keeps, in order, the entries with another key or
\* other modifiers
unregister(key, modifiers) ==
    LET keep(h) == UnregisterKeeps(h, key, modifiers)
    IN  /\ hotkeys' = SelectSeq(hotkeys, keep)
        /\ last' = HotkeyCall("unregister", [key |-> key, modifiers |-> modifiers], OkResult,
                              hotkeys,
                              IF /\ last.op = "register"
                                 /\ last.args.key = key
                                 /\ last.args.modifiers = modifiers
                                THEN (IF last.res.ok THEN "registered" ELSE "refused")
                                ELSE "-")

\* unregister_tool that drops the first entry of the tool only
unregister_tool_first_only(tool_id) ==
    LET own == {i \in 1..Len(hotkeys) : hotkeys[i].tool_id = tool_id}
        first == CHOOSE i \in own : \A j \in own : i <= j
    IN  /\ hotkeys' = IF own = {} THEN hotkeys
                      ELSE SubSeq(hotkeys, 1, first - 1) \o SubSeq(hotkeys, first + 1, Len(hotkeys))
        /\ last' = HotkeyCall("unregister_tool", [tool_id |-> tool_id], OkResult, hotkeys, "-")

\* unregister_tool: retain the entries of the other tools
unregister_tool(tool_id) ==
    LET keep(h) == h.tool_id # tool_id
    IN  /\ hotkeys' = SelectSeq(hotkeys, keep)
        /\ last' = HotkeyCall("unregister_tool", [tool_id |-> tool_id], OkResult, hotkeys, "-")

Register(tool_id, action_name, key, modifiers) ==
    /\ register(tool_id, action_name, key, modifiers)
    /\ UNCHANGED <<windows, license, rwlock, cmds, phase, spawned_processes, external_pids, procs>>

Unregister(key, modifiers) ==
    /\ unregister(key, modifiers)
    /\ UNCHANGED <<windows, license, rwlock, cmds, phase, spawned_processes, external_pids, procs>>

UnregisterTool(tool_id) ==
    /\ unregister_tool(tool_id)
    /\ UNCHANGED <<windows, license, rwlock, cmds, phase, spawned_processes, external_pids, procs>>

---------------------------------------------------------------------------
(* The commands and the lock: hub-dashboard/src/main.rs, tauri_commands.rs *)

\* the threads command invocations run on
Threads == {"th1", "th2"}

\* the tool the concurrent commands are called for
CommandTools == {"SpeakSelected"}

\* the commands that lock the ProcessManager for writing first
WriteCommands ==
    {"start_tool", "stop_tool", "scan_external_processes", "get_tool_statuses"}

\* a thread that runs no command
Idle == [pc |-> "idle", cmd |-> "-", tool |-> "-"]

\* RwLock::new(pm): no writer, no reader
Unlocked == [writer |-> None, readers |-> {}]

\* a command is invoked on a thread; what it does first with the
\* ProcessManager is state.process_manager.write()
Invoke(c, cmd, t) ==
    /\ phase = "ready"
    /\ cmds[c] = Idle
    /\ cmds' = [cmds EXCEPT ![c] = [pc |-> "write", cmd |-> cmd, tool |-> t]]
    /\ UNCHANGED <<windows, license, rwlock, phase, spawned_processes, external_pids, procs,
                   hotkeys, last>>

\* LockWrite that does not wait for the readers to leave
LockWriteWhileRead(c) ==
    /\ cmds[c].pc = "write"
    /\ rwlock.writer = None
    /\ rwlock' = [rwlock EXCEPT !.writer = Some(c)]
    /\ cmds' = [cmds EXCEPT ![c].pc = "locked"]
    /\ UNCHANGED <<windows, license, phase, spawned_processes, external_pids, procs, hotkeys, last>>

\* LockWrite that does not wait for a writer to leave
LockWriteWhileWritten(c) ==
    /\ cmds[c].pc = "write"
    /\ rwlock.readers = {}
    /\ rwlock' = [rwlock EXCEPT !.writer = Some(c)]
    /\ cmds' = [cmds EXCEPT ![c].pc = "locked"]
    /\ UNCHANGED <<windows, license, phase, spawned_processes, external_pids, procs, hotkeys, last>>

\* RwLock::write returns: there is no writer and no reader
LockWrite(c) ==
    /\ cmds[c].pc = "write"
    /\ rwlock.writer = None
    /\ rwlock.readers = {}
    /\ rwlock' = [rwlock EXCEPT !.writer = Some(c)]
    /\ cmds' = [cmds EXCEPT ![c].pc = "locked"]
    /\ UNCHANGED <<windows, license, phase, spawned_processes, external_pids, procs, hotkeys, last>>

\* start_tool_with_config up to the spawn, lines 40-71, as the set of ways it
\* can go on the present state: the maps and the process table as it leaves
\* them, the checks that failed, and whether it returns Ok for a tool found
\* running, returns the error of a missing binary, or goes on to spawn
StartChecked(done, sp, ex, pr, failed) ==
    [done |-> done, sp |-> sp, ex |-> ex, pr |-> pr, failed |-> failed]

LocateChecked(t, sp, ex, pr, failed) ==
    {StartChecked(IF binary_path # None THEN "spawn" ELSE "not found", sp, ex, pr, failed) :
        binary_path \in LocateOutcomes[t]}

ExternalChecked(t, sp, pr, failed) ==
    IF t \in DOMAIN external_pids
      THEN UNION {IF Answer(o)
                    THEN {StartChecked("running", sp, external_pids, pr, failed)}
                    ELSE LocateChecked(t, sp, Remove(external_pids, t), pr,
                                       failed \cup (IF o = "failed" THEN {"external probe"}
                                                                    ELSE {})) :
                  o \in ProbeOutcomes(external_pids[t])}
      ELSE LocateChecked(t, sp, external_pids, pr, failed)

start_until_spawn(t) ==
    IF t \in DOMAIN spawned_processes
      THEN UNION {CASE w = "Running" ->
                         {StartChecked("running", spawned_processes, external_pids, procs, {})}
                    [] w = "Exited" ->
                         ExternalChecked(t, Remove(spawned_processes, t),
                                         Reap(procs, spawned_processes[t]), {})
                    [] w = "Err" ->
                         ExternalChecked(t, Remove(spawned_processes, t),
                                         DropChild(procs, spawned_processes[t]),
                                         {"owned check"}) :
                  w \in try_wait(procs, spawned_processes[t])}
      ELSE ExternalChecked(t, spawned_processes, procs, {})

\* start_tool: pm.start_tool_with_config(&tool, &tool_config) with the guard
\* held, up to the return of a call that spawns nothing, or up to the sleep of
\* the grace window with the child spawned and not yet in the map
RunStart(c) ==
    /\ cmds[c].pc = "locked"
    /\ cmds[c].cmd = "start_tool"
    /\ LET t == cmds[c].tool
       IN  \E s \in start_until_spawn(t) :
             /\ spawned_processes' = s.sp
             /\ external_pids' = s.ex
             /\ \/ /\ s.done = "running"
                   /\ procs' = s.pr
                   /\ last' = Call("start", t, OkResult, {}, {},
                                   StartObs(t, s.sp, s.ex, None, s.failed))
                   /\ cmds' = [cmds EXCEPT ![c].pc = "unlock"]
                \/ /\ s.done = "not found"
                   /\ procs' = s.pr
                   /\ last' = Call("start", t,
                                   ErrResult("BinaryNotFound", <<"Could not find binary">>),
                                   {}, {}, StartObs(t, s.sp, s.ex, None, s.failed))
                   /\ cmds' = [cmds EXCEPT ![c].pc = "unlock"]
                \/ /\ s.done = "spawn"
                   /\ procs' = s.pr
                   /\ last' = Call("start", t, ErrResult("SpawnError", <<"Failed to spawn">>),
                                   {}, {}, StartObs(t, s.sp, s.ex, None, s.failed))
                   /\ cmds' = [cmds EXCEPT ![c].pc = "unlock"]
                \/ /\ s.done = "spawn"
                   /\ \E pid \in Pids \ DOMAIN s.pr :
                        /\ procs' = Insert(s.pr, pid,
                                           [exe |-> ExeName(t), child |-> TRUE, via |-> "start",
                                            st |-> "alive",
                                            args |-> add_hotkey_args(t, DefaultToolConfig)])
                        /\ cmds' = [cmds EXCEPT ![c] =
                                      [pc |-> "grace", cmd |-> "start_tool", tool |-> t,
                                       pid |-> pid, failed |-> s.failed]]
                   /\ last' = last
    /\ UNCHANGED <<windows, license, rwlock, phase, hotkeys>>

\* start_tool after the sleep, lines 116-144, the guard still held: the child
\* has ended meanwhile or not, and the re-check decides between the insert
\* and the error
RunStartFinish(c) ==
    /\ cmds[c].pc = "grace"
    /\ \E st \in {"alive", "exited"} :
         LET pr1 == [procs EXCEPT ![cmds[c].pid].st = st]
         IN  \E w \in try_wait(pr1, cmds[c].pid) :
             \E exit \in IF w = "Exited"
                            THEN {Some([stderr |-> e, code |-> k]) :
                                    e \in StderrOutputs, k \in ExitCodes}
                            ELSE {None} :
                AfterGrace(cmds[c].tool, spawned_processes, external_pids, pr1, cmds[c].pid,
                           w, exit, cmds[c].failed)
    /\ cmds' = [cmds EXCEPT ![c] = [pc |-> "unlock", cmd |-> "start_tool",
                                    tool |-> cmds[c].tool]]
    /\ UNCHANGED <<windows, license, rwlock, phase, hotkeys>>

\* stop_tool: pm.stop_tool(&tool) with the guard held, the wait included
RunStop(c) ==
    /\ cmds[c].pc = "locked"
    /\ cmds[c].cmd = "stop_tool"
    /\ \E s \in stop_tool(cmds[c].tool, CurrentState) :
         /\ spawned_processes' = s.sp
         /\ external_pids' = s.ex
         /\ procs' = s.pr
         /\ last' = Call("stop", cmds[c].tool, OkResult, {}, s.kills, s.path)
    /\ cmds' = [cmds EXCEPT ![c].pc = "unlock"]
    /\ UNCHANGED <<windows, license, rwlock, phase, hotkeys>>

\* scan_external_processes: pm.full_scan() with the guard held
RunScan(c) ==
    /\ cmds[c].pc = "locked"
    /\ cmds[c].cmd = "scan_external_processes"
    /\ \E running \in get_all_running_processes : full_scan(running)
    /\ cmds' = [cmds EXCEPT ![c].pc = "unlock"]
    /\ UNCHANGED <<windows, license, rwlock, phase, spawned_processes, procs, hotkeys>>

\* get_tool_statuses, first block: pm.refresh_statuses() with the guard held
RunRefresh(c) ==
    /\ cmds[c].pc = "locked"
    /\ cmds[c].cmd = "get_tool_statuses"
    /\ refresh_statuses
    /\ cmds' = [cmds EXCEPT ![c].pc = "unlock"]
    /\ UNCHANGED <<windows, license, rwlock, phase, external_pids, hotkeys>>

\* the write guard goes out of scope: at the end of the command, or at the
\* end of the first block of get_tool_statuses, which then asks for read()
UnlockWrite(c) ==
    /\ cmds[c].pc = "unlock"
    /\ rwlock' = [rwlock EXCEPT !.writer = None]
    /\ cmds' = [cmds EXCEPT ![c] = IF cmds[c].cmd = "get_tool_statuses"
                                     THEN [cmds[c] EXCEPT !.pc = "read"]
                                     ELSE Idle]
    /\ UNCHANGED <<windows, license, phase, spawned_processes, external_pids, procs, hotkeys, last>>

\* the key get_tool_statuses reports a tool under
status_key(t) ==
    CASE t = "DeskTalk" -> "desk-talk"
      [] t = "SpeakSelected" -> "speak-selected"
      [] t = "QuickAssistant" -> "quick-assistant"
      [] t = "FlattenString" -> "flatten-string"
      [] t = "TypoFix" -> "typo-fix"
      [] t = "OcrPaste" -> "ocr-paste"

\* a command inside the loop of get_tool_statuses, the read guard held and
\* the map statuses filled so far
Reading(cmd, statuses) ==
    [pc |-> "reading", cmd |-> cmd.cmd, tool |-> cmd.tool, statuses |-> statuses]

\* LockRead that does not wait for the writer
LockReadWhileWritten(c) ==
    /\ cmds[c].pc = "read"
    /\ rwlock' = [rwlock EXCEPT !.readers = @ \cup {c}]
    /\ cmds' = [cmds EXCEPT ![c] = Reading(cmds[c], EmptyMap)]
    /\ UNCHANGED <<windows, license, phase, spawned_processes, external_pids, procs, hotkeys, last>>

\* RwLock::read returns: there is no writer
LockRead(c) ==
    /\ cmds[c].pc = "read"
    /\ rwlock.writer = None
    /\ rwlock' = [rwlock EXCEPT !.readers = @ \cup {c}]
    /\ cmds' = [cmds EXCEPT ![c] = Reading(cmds[c], EmptyMap)]
    /\ UNCHANGED <<windows, license, phase, spawned_processes, external_pids, procs, hotkeys, last>>

\* get_tool_statuses, one turn of the loop over ToolId::all() with the read
\* guard held: get_status of the next tool is inserted under the tool's key;
\* after the last turn the map is returned
ReadStatuses(c) ==
    /\ cmds[c].pc = "reading"
    /\ LET i == Cardinality(DOMAIN cmds[c].statuses) + 1
           tool_id == ToolOrder[i]
           statuses == Insert(cmds[c].statuses, status_key(tool_id), get_status(tool_id))
       IN  IF i < Len(ToolOrder)
             THEN /\ cmds' = [cmds EXCEPT ![c] = Reading(cmds[c], statuses)]
                  /\ UNCHANGED last
             ELSE /\ cmds' = [cmds EXCEPT ![c] = [pc |-> "read done", cmd |-> cmds[c].cmd,
                                                 tool |-> cmds[c].tool]]
                  /\ last' = Call("statuses", "-", OkResult, {}, {}, statuses)
    /\ UNCHANGED <<windows, license, rwlock, phase, spawned_processes, external_pids, procs, hotkeys>>

\* the read guard goes out of scope at the end of get_tool_statuses
UnlockRead(c) ==
    /\ cmds[c].pc = "read done"
    /\ rwlock' = [rwlock EXCEPT !.readers = @ \ {c}]
    /\ cmds' = [cmds EXCEPT ![c] = Idle]
    /\ UNCHANGED <<windows, license, phase, spawned_processes, external_pids, procs, hotkeys, last>>

---------------------------------------------------------------------------
(* The license and the trial: hub-licensing/src/config.rs, trial.rs,
   lemonsqueezy.rs; hub-dashboard/src/license_commands.rs *)

\* LicenseConfig::default(), which load() writes when there is no file; the
\* model keeps the trial fields and the license key with its status
LicenseConfigDefault ==
    [trial_started |-> FALSE, trial_expiration |-> None,
     license_key |-> None, license_status |-> None]

\* Utc::now() + Duration::days(TRIAL_DAYS) at the calls that occur
Expirations == {"day 7", "day 8"}

\* what LemonSqueezy reports as the status of a license
LicenseStatuses == {"active", "expired"}

\* start_trial is a plain command and runs on the main thread; the license
\* commands are async and run on a thread of the async runtime
MainThread == "th1"
RuntimeThread == "th2"

\* a license command between its LicenseConfig::load() and its save(): config
\* is its own copy of the file's content, already changed
Loaded(cmd, config) == [pc |-> "loaded", cmd |-> cmd, tool |-> "-", config |-> config]

\* a license command waiting for the answer of the license server
Awaiting(cmd) == [pc |-> "awaiting", cmd |-> cmd, tool |-> "-"]

LicenseCall(op, res, obs) == Call(op, "-", res, {}, {}, obs)

\* start_trial up to config.save(): load, bail out when the trial was used
StartTrialLoad(c) ==
    /\ c = MainThread
    /\ cmds[c] = Idle
    /\ IF license.trial_started
         THEN /\ last' = LicenseCall("start_trial",
                             ErrResult("TrialUsed",
                                       <<"Trial has already been used on this machine">>),
                             None)
              /\ cmds' = cmds
         ELSE /\ \E expiration \in Expirations :
                   cmds' = [cmds EXCEPT ![c] =
                              Loaded("start_trial",
                                     [license EXCEPT !.trial_started = TRUE,
                                                     !.trial_expiration = Some(expiration)])]
              /\ last' = last
    /\ UNCHANGED <<windows, license, rwlock, phase, spawned_processes, external_pids, procs,
                   hotkeys>>

\* config.save() of start_trial, activate_and_save, validate_existing and
\* clear_license: fs::write of the whole LicenseConfig the command holds, which
\* may fail; the command returns after it
SaveConfig(c) ==
    /\ cmds[c].pc = "loaded"
    /\ \E saved \in BOOLEAN :
         IF saved
           THEN /\ license' = cmds[c].config
                /\ last' = LicenseCall(cmds[c].cmd, OkResult, cmds[c].config)
           ELSE /\ license' = license
                /\ last' = LicenseCall(cmds[c].cmd,
                                       ErrResult("SaveFailed",
                                                 <<"Failed to write license config file">>),
                                       None)
    /\ cmds' = [cmds EXCEPT ![c] = Idle]
    /\ UNCHANGED <<windows, rwlock, phase, spawned_processes, external_pids, procs, hotkeys>>

\* activate_and_save: the request to the server, and when it activated the
\* key, LicenseConfig::load() and the assignments up to save()
ActivateLoad(c) ==
    /\ c = RuntimeThread
    /\ cmds[c] = Idle
    /\ \E activated \in BOOLEAN, status \in LicenseStatuses :
         IF activated
           THEN /\ cmds' = [cmds EXCEPT ![c] =
                              Loaded("activate_and_save",
                                     [license EXCEPT !.license_key = Some("key"),
                                                     !.license_status = Some(status)])]
                /\ last' = last
           ELSE /\ cmds' = cmds
                /\ last' = LicenseCall("activate_and_save", OkResult, None)
    /\ UNCHANGED <<windows, license, rwlock, phase, spawned_processes, external_pids, procs,
                   hotkeys>>

\* validate_existing and deactivate_and_clear, the first load(): without a
\* license key the command fails, with one it asks the server
RequestWithKey(c, cmd) ==
    /\ c = RuntimeThread
    /\ cmds[c] = Idle
    /\ IF license.license_key = None
         THEN /\ cmds' = cmds
              /\ last' = LicenseCall(cmd, ErrResult("NoKey", <<"No license key configured">>),
                                     None)
         ELSE /\ cmds' = [cmds EXCEPT ![c] = Awaiting(cmd)]
              /\ last' = last
    /\ UNCHANGED <<windows, license, rwlock, phase, spawned_processes, external_pids, procs,
                   hotkeys>>

\* validate_existing after the server's answer: when the license is valid,
\* load() again and set the status
ValidateLoad(c) ==
    /\ cmds[c] = Awaiting("validate_existing")
    /\ \E valid \in BOOLEAN, status \in LicenseStatuses :
         IF valid
           THEN /\ cmds' = [cmds EXCEPT ![c] =
                              Loaded("validate_existing",
                                     [license EXCEPT !.license_status = Some(status)])]
                /\ last' = last
           ELSE /\ cmds' = [cmds EXCEPT ![c] = Idle]
                /\ last' = LicenseCall("validate_existing", OkResult, None)
    /\ UNCHANGED <<windows, license, rwlock, phase, spawned_processes, external_pids, procs,
                   hotkeys>>

\* deactivate_and_clear after the server's answer: when it deactivated the
\* instance, load() again and clear_license up to its save()
DeactivateLoad(c) ==
    /\ cmds[c] = Awaiting("deactivate_and_clear")
    /\ \E deactivated \in BOOLEAN :
         IF deactivated
           THEN /\ cmds' = [cmds EXCEPT ![c] =
                              Loaded("deactivate_and_clear",
                                     [license EXCEPT !.license_key = None,
                                                     !.license_status = None])]
                /\ last' = last
           ELSE /\ cmds' = [cmds EXCEPT ![c] = Idle]
                /\ last' = LicenseCall("deactivate_and_clear", OkResult, None)
    /\ UNCHANGED <<windows, license, rwlock, phase, spawned_processes, external_pids, procs,
                   hotkeys>>

---------------------------------------------------------------------------
(* The environment: programs started and ended outside the hub *)

OsCall == Call("os", "-", OkResult, {}, {}, None)

\* somebody starts a program
OsLaunch(pid, name) ==
    /\ pid \notin DOMAIN procs
    /\ procs' = Insert(procs, pid, [exe |-> name, st |-> "alive", child |-> FALSE, via |-> "os",
                                     args |-> <<>>])
    /\ last' = OsCall
    /\ UNCHANGED <<windows, license, rwlock, cmds, phase, spawned_processes, external_pids, hotkeys>>

\* a running process ends
OsExit(pid) ==
    /\ pid \in DOMAIN procs
    /\ procs[pid].st = "alive"
    /\ procs' = ExitProc(procs, spawned_processes, pid)
    /\ last' = OsCall
    /\ UNCHANGED <<windows, license, rwlock, cmds, phase, spawned_processes, external_pids, hotkeys>>

---------------------------------------------------------------------------

Init ==
    /\ windows \in BOOLEAN
    /\ phase = "new"
    /\ spawned_processes = EmptyMap
    /\ external_pids = EmptyMap
    /\ procs = EmptyMap
    /\ hotkeys = <<>>
    /\ rwlock = Unlocked
    /\ cmds = [c \in Threads |-> Idle]
    /\ license = LicenseConfigDefault
    /\ last = Call("new", "-", OkResult, {}, {}, None)

\* the ProcessManager against the operating system
Next ==
    \/ InitDetectRunning
    \/ \E t \in Tools : StartTool(t)
    \/ \E t \in Tools : StopTool(t)
    \/ RefreshStatuses
    \/ FullScan
    \/ StopAll
    \/ \E pid \in Pids, name \in ImageNames : OsLaunch(pid, name)
    \/ \E pid \in Pids : OsExit(pid)

Spec == Init /\ [][Next]_vars

\* the HotkeyRegistry, from HotkeyRegistry::new()
NextHotkeys ==
    \/ \E t \in HotkeyOwners, a \in ActionNames, k \in HotkeyKeys, m \in ModifierLists :
          Register(t, a, k, m)
    \/ \E k \in HotkeyKeys, m \in ModifierLists : Unregister(k, m)
    \/ \E t \in HotkeyOwners : UnregisterTool(t)

SpecHotkeys == Init /\ [][NextHotkeys]_vars

\* the hub's start and stop commands, with the tools' configured hotkeys
NextLaunch ==
    \/ InitDetectRunning
    \/ \E t \in Tools : StartToolCommand(t)
    \/ \E t \in Tools : StopTool(t)
    \/ \E pid \in Pids : OsExit(pid)

SpecLaunch == Init /\ [][NextLaunch]_vars

\* get_all_running_processes on a listing the OS command printed
ParseListing(stdout) ==
    /\ last' = Call("snapshot", "-", OkResult, {}, {},
                    [stdout |-> stdout, result |-> running_processes_from(stdout)])
    /\ UNCHANGED <<windows, license, rwlock, cmds, phase, spawned_processes, external_pids, procs,
                   hotkeys>>

NextSnapshot == \E stdout \in Listings : ParseListing(stdout)

SpecSnapshot == Init /\ [][NextSnapshot]_vars

\* ProcessManager::find_binary applied to a tool and a file system; the
\* ProcessManager keeps no path of its own
FindBinary(t, fs) ==
    /\ last' = Call("find_binary", t, OkResult, {}, {},
                    [binary_path |-> None, exists |-> FALSE, fs |-> fs,
                     found |-> find_binary(t, fs)])
    /\ UNCHANGED <<windows, license, rwlock, cmds, phase, spawned_processes, external_pids, procs,
                   hotkeys>>

\* ToolRegistry::find_binary applied to a tool whose ToolInfo holds binary_path
RegistryFindBinary(t, binary_path, exists, fs) ==
    /\ binary_path = None => ~exists
    /\ last' = Call("registry find_binary", t, OkResult, {}, {},
                    [binary_path |-> binary_path, exists |-> exists, fs |-> fs,
                     found |-> ToolRegistry_find_binary(binary_path, exists, fs)])
    /\ UNCHANGED <<windows, license, rwlock, cmds, phase, spawned_processes, external_pids, procs,
                   hotkeys>>

\* the two locators on every tool and every small file system
NextLocate ==
    \/ \E t \in Tools, fs \in SmallFileSystems : FindBinary(t, fs)
    \/ \E t \in Tools, binary_path \in CachedPaths, exists \in BOOLEAN,
          fs \in SmallFileSystems : RegistryFindBinary(t, binary_path, exists, fs)

SpecLocate == Init /\ [][NextLocate]_vars

\* add_hotkey_args on every tool and every configuration
NextArgs == \E t \in AllTools, tool_config \in ToolConfigs : AddHotkeyArgs(t, tool_config)

SpecArgs == Init /\ [][NextArgs]_vars

\* the programs started outside the hub under the polled tool's name
PolledNames == {ExeName(t) : t \in CommandTools} \cup {MixedCaseName}

\* the ProcessManager of one tool against the operating system, with the two
\* polls of the dashboard (get_tool_statuses, which runs refresh_statuses, and
\* scan_external_processes, which runs full_scan) invoked again and again
NextPolling ==
    \/ InitDetectRunning
    \/ \E t \in CommandTools : StartTool(t)
    \/ \E t \in CommandTools : StopTool(t)
    \/ RefreshStatuses
    \/ FullScan
    \/ \E pid \in Pids, name \in PolledNames : OsLaunch(pid, name)
    \/ \E pid \in Pids : OsExit(pid)

SpecPolling ==
    Init /\ [][NextPolling]_vars /\ WF_vars(RefreshStatuses) /\ WF_vars(FullScan)

\* the trial and license commands, one on the main thread and one on a
\* thread of the async runtime
NextLicense ==
    \/ \E c \in Threads : StartTrialLoad(c)
    \/ \E c \in Threads : ActivateLoad(c)
    \/ \E c \in Threads, cmd \in {"validate_existing", "deactivate_and_clear"} :
          RequestWithKey(c, cmd)
    \/ \E c \in Threads : ValidateLoad(c)
    \/ \E c \in Threads : DeactivateLoad(c)
    \/ \E c \in Threads : SaveConfig(c)

SpecLicense == Init /\ [][NextLicense]_vars

\* the entries of the tray menu
MenuIds == {"show", "quit"}

\* the hub from its start to its exit, and the operating system after it
NextExit ==
    \/ InitDetectRunning
    \/ \E t \in Tools : StartTool(t)
    \/ \E id \in MenuIds : handle_menu_event(id)
    \/ \E pid \in Pids, name \in PolledNames : OsLaunch(pid, name)
    \/ \E pid \in Pids : OsExit(pid)

SpecExit == Init /\ [][NextExit]_vars

\* command invocations that run concurrently on the threads
NextCommands ==
    \/ InitDetectRunning
    \/ \E c \in Threads, cmd \in WriteCommands, t \in CommandTools : Invoke(c, cmd, t)
    \/ \E c \in Threads : LockWrite(c)
    \/ \E c \in Threads : RunStart(c)
    \/ \E c \in Threads : RunStartFinish(c)
    \/ \E c \in Threads : RunStop(c)
    \/ \E c \in Threads : RunScan(c)
    \/ \E c \in Threads : RunRefresh(c)
    \/ \E c \in Threads : UnlockWrite(c)
    \/ \E c \in Threads : LockRead(c)
    \/ \E c \in Threads : ReadStatuses(c)
    \/ \E c \in Threads : UnlockRead(c)

SpecCommands == Init /\ [][NextCommands]_vars

\* the tools of the settings command: one with a settings window, one without
SettingsTools == {"SpeakSelected", "DeskTalk"}

\* the hub's commands on those tools, the settings command among them
NextSettings ==
    \/ InitDetectRunning
    \/ \E t \in SettingsTools : OpenToolSettings(t)
    \/ \E t \in SettingsTools : StartTool(t)
    \/ \E t \in SettingsTools : StopTool(t)
    \/ \E t \in SettingsTools : GetStatus(t)
    \/ FullScan
    \/ \E pid \in Pids : OsExit(pid)

SpecSettings == Init /\ [][NextSettings]_vars

---------------------------------------------------------------------------
(* Properties *)

Range(seq) == {seq[i] : i \in 1..Len(seq)}

\* the PIDs held by a child handle
HeldPids == {spawned_processes[t] : t \in DOMAIN spawned_processes}

\* C1: in every reachable state no tool has both an entry in
\* spawned_processes (Owned) and an entry in external_pids (External).
C1_OwnershipExclusive ==
    DOMAIN spawned_processes \cap DOMAIN external_pids = {}

\* a full scan whose snapshot listed the executable of a tool that is Owned
C1_Witness ==
    /\ last.op = "scan"
    /\ \E t \in DOMAIN spawned_processes : ScanKey(t) \in DOMAIN last.obs.running

\* C2: start on a tool whose Owned process is alive returns Ok, spawns
\* nothing and leaves the Owned record (the same handle) and the process
\* table as they were: of two consecutive starts only the first one spawns.
C2_IdempotentStart ==
    [][\A t \in Tools :
         ( /\ last'.op = "start" /\ last'.tool = t
           /\ t \in DOMAIN spawned_processes
           /\ procs[spawned_processes[t]].st = "alive" )
         => ( /\ last'.res.ok
              /\ last'.spawn = {}
              /\ spawned_processes' = spawned_processes
              /\ procs' = procs )]_vars

\* a start that returned Ok without spawning, on a tool that is Owned and alive
C2_Witness ==
    /\ last.op = "start" /\ last.res.ok /\ last.spawn = {}
    /\ last.tool \in DOMAIN spawned_processes
    /\ procs[spawned_processes[last.tool]].st = "alive"

\* C5: when start has spawned a child: if the child has ended by the re-check
\* after the grace window, start returns an error and the tool has no Owned
\* record; where the re-check reports the exit, the diagnostic is the first
\* five lines of the captured standard error, or names the exit code when
\* nothing was captured. If the child is alive at the re-check, start returns
\* Ok and the tool is Owned with the child's handle. (Nothing else runs
\* between the re-check and the return: a child that start leaves alive was
\* alive at the re-check, one that is gone had ended.)
C5_GraceWindow ==
    [][\A t \in Tools, pid \in Pids :
         (last'.op = "start" /\ last'.tool = t /\ last'.spawn = {pid})
         => IF ~last'.res.ok
              THEN /\ pid \notin DOMAIN procs'
                   /\ t \notin DOMAIN spawned_processes'
                   /\ pid \notin HeldPids'
                   /\ last'.res.kind = "Exited" <=> last'.obs.exit # None
                   /\ last'.res.kind = "Exited" =>
                        LET e == last'.obs.exit[1].stderr
                            c == last'.obs.exit[1].code
                            m == last'.res.msg
                        IN  IF e # <<>>
                              THEN /\ Len(m) = (IF Len(e) < 5 THEN Len(e) ELSE 5)
                                   /\ \A i \in 1..Len(m) : m[i] = e[i]
                              ELSE \/ c = None /\ m = <<"Process exited with code None">>
                                   \/ c = Some(1) /\ m = <<"Process exited with code Some(1)">>
              ELSE /\ last'.obs.exit = None
                   /\ t \in DOMAIN spawned_processes'
                   /\ spawned_processes'[t] = pid
                   /\ procs'[pid].st = "alive"]_vars

\* a start whose child ended at once with "boom" on standard error
C5_Witness ==
    /\ last.op = "start" /\ last.spawn # {}
    /\ last.res.kind = "Exited" /\ last.res.msg[1] = "boom"
    /\ last.tool \notin DOMAIN spawned_processes

\* C6: after stop_all every tool that was Owned is Unmanaged, external_pids
\* is unchanged, every termination issued is against a child handle held
\* before the call and none goes through the external path, and no process
\* other than those children is touched.
C6_StopAllScope ==
    [][last'.op = "stop_all"
         => /\ \A t \in DOMAIN spawned_processes :
                 t \notin DOMAIN spawned_processes' /\ t \notin DOMAIN external_pids'
            /\ external_pids' = external_pids
            /\ \A k \in last'.kills : k[1] # "force" /\ k[2] \in HeldPids
            /\ \A p \in DOMAIN procs \ HeldPids :
                 p \in DOMAIN procs' /\ procs'[p] = procs[p]]_vars

\* a stop_all that stopped a child while an External tool keeps running
C6_Witness ==
    /\ last.op = "stop_all" /\ "owned" \in last.obs
    /\ \E t \in DOMAIN external_pids : external_pids[t] \in Listed

\* C7: an External tool whose executable name has no entry in the snapshot
\* full_scan took is Unmanaged (status Stopped) after the scan.
C7_ScanReconciliation ==
    [][last'.op = "scan"
         => \A t \in DOMAIN external_pids :
              ScanKey(t) \notin DOMAIN last'.obs.running
                => /\ t \notin DOMAIN external_pids'
                   /\ t \notin DOMAIN spawned_processes'
                   /\ get_status(t)' = "Stopped"]_vars

\* a scan that cleared an External record for want of a snapshot entry
C7_Witness ==
    /\ last.op = "scan"
    /\ \E t \in last.obs.exited_external :
         ScanKey(t) \notin DOMAIN last.obs.running /\ get_status(t) = "Stopped"

\* C9: stop on a tool without a record returns Ok, issues no termination and
\* changes neither map nor any process.
C9_IdempotentStop ==
    [][\A t \in Tools :
         ( /\ last'.op = "stop" /\ last'.tool = t
           /\ t \notin DOMAIN spawned_processes
           /\ t \notin DOMAIN external_pids )
         => ( /\ last'.res.ok
              /\ last'.kills = {}
              /\ spawned_processes' = spawned_processes
              /\ external_pids' = external_pids
              /\ procs' = procs )]_vars

\* a stop that found no record while a process runs under the tool's name
C9_Witness ==
    /\ last.op = "stop" /\ last.obs = {"not running"}
    /\ \E p \in Listed : to_lowercase(procs[p].exe) = ScanKey(last.tool)

\* C3: in a registry that started empty, no two entries have the same key
\* and the same set of modifiers, whatever the order the modifiers are
\* listed in and whoever owns the entries.
C3_UniqueKeyModifierSet ==
    \A i, j \in 1..Len(hotkeys) :
        ( /\ i # j
          /\ hotkeys[i].key = hotkeys[j].key
          /\ Range(hotkeys[i].modifiers) = Range(hotkeys[j].modifiers) ) => FALSE

\* C4: register called while an entry with that key and those modifiers
\* exists returns Conflict carrying that entry's owner and action label and
\* leaves the list as it was, whoever owns the entry; called while none
\* exists it returns Ok and the list is the old one with exactly the new
\* entry added.
C4_RegisterContract ==
    [][last'.op = "register"
         => LET a == last'.args
                same == {i \in 1..Len(hotkeys) :
                           hotkeys[i].key = a.key /\ hotkeys[i].modifiers = a.modifiers}
            IN  IF same # {}
                  THEN /\ last'.res.kind = "Conflict"
                       /\ \E i \in same :
                            /\ last'.res.existing.tool_id = hotkeys[i].tool_id
                            /\ last'.res.existing.action_name = hotkeys[i].action_name
                       /\ hotkeys' = hotkeys
                  ELSE /\ last'.res.ok
                       /\ Len(hotkeys') = Len(hotkeys) + 1
                       /\ hotkeys' = Append(hotkeys, a)]_vars

\* a register refused on an entry of the same owner under another label
C4_Witness ==
    /\ last.op = "register"
    /\ last.res.kind = "Conflict"
    /\ last.res.existing.tool_id = last.args.tool_id
    /\ last.res.existing.action_name # last.args.action_name
    /\ Len(hotkeys) = 1

\* C8 as stated: register followed by unregister of the same (key,
\* modifiers) leaves the set of entries there was before the register call,
\* in every registry state.
C8_RoundTripAlways ==
    [][( /\ last.op = "register"
         /\ last'.op = "unregister"
         /\ last'.args.key = last.args.key
         /\ last'.args.modifiers = last.args.modifiers )
         => Range(hotkeys') = Range(last.before)]_vars

\* C8 amended: when the register call succeeds, register followed by
\* unregister of the same (key, modifiers) leaves the set of entries there
\* was before the register call.
C8_RoundTripAfterSuccess ==
    [][( /\ last.op = "register"
         /\ last.res.ok
         /\ last'.op = "unregister"
         /\ last'.args.key = last.args.key
         /\ last'.args.modifiers = last.args.modifiers )
         => Range(hotkeys') = Range(last.before)]_vars

\* an unregister right after a successful register of the same key and
\* modifiers, in a registry that held another entry with that key
C8_Witness ==
    /\ last.op = "unregister"
    /\ last.after = "registered"
    /\ Len(last.before) = 2
    /\ Len(hotkeys) = 1
    /\ hotkeys[1].key = last.args.key

\* C10: no two tools the hub has launched run at the same time with the
\* same hotkey on their command lines: the second start is refused with the
\* conflict before anything is spawned.
C10_NoSharedHotkey ==
    \A t1, t2 \in DOMAIN spawned_processes :
        ( /\ t1 # t2
          /\ procs[spawned_processes[t1]].st = "alive"
          /\ procs[spawned_processes[t2]].st = "alive"
          /\ procs[spawned_processes[t1]].args # <<>> )
        => procs[spawned_processes[t1]].args # procs[spawned_processes[t2]].args

\* C11 as stated: a tool gets an External record, or another PID in it, in
\* a full_scan only: construction and startup, start, stop, refresh_statuses
\* and stop_all never make one.
C11_OnlyFullScanCreates ==
    [][\A t \in AllTools :
         ( /\ t \in DOMAIN external_pids'
           /\ t \in DOMAIN external_pids => external_pids'[t] # external_pids[t] )
         => last'.op = "scan"]_vars

\* C11 amended: a tool gets an External record in a full_scan or in the
\* startup detection AppState::new runs once, and in no other operation.
C11_OnlyScansCreate ==
    [][\A t \in AllTools :
         ( /\ t \in DOMAIN external_pids'
           /\ t \in DOMAIN external_pids => external_pids'[t] # external_pids[t] )
         => last'.op \in {"scan", "detect"}]_vars

\* the startup detection has made an External record
C11_Witness ==
    /\ last.op = "detect"
    /\ external_pids # EmptyMap

C13_RemovedByScanOrKill ==
    [][\A t \in DOMAIN external_pids :
         t \notin DOMAIN external_pids'
         => \/ /\ last'.op = "scan"
               /\ ~( /\ ScanKey(t) \in DOMAIN last'.obs.running
                     /\ last'.obs.running[ScanKey(t)] = external_pids[t] )
            \/ /\ last'.op = "stop" /\ last'.tool = t
               /\ <<"force", external_pids[t]>> \in last'.kills]_vars

\* C13 amended: a tool loses its External record only in a full_scan whose
\* snapshot does not list the recorded PID under the tool's executable name,
\* in a stop of that tool (which issues the forced termination against that
\* PID on Windows builds and none on others), or in a start of that tool,
\* which then goes on to locate and spawn; refresh_statuses and stop_all
\* never remove one.
C13_RemovedByScanStopOrStart ==
    [][\A t \in DOMAIN external_pids :
         t \notin DOMAIN external_pids'
         => \/ /\ last'.op = "scan"
               /\ ~( /\ ScanKey(t) \in DOMAIN last'.obs.running
                     /\ last'.obs.running[ScanKey(t)] = external_pids[t] )
            \/ /\ last'.op = "stop" /\ last'.tool = t
               /\ windows => <<"force", external_pids[t]>> \in last'.kills
            \/ /\ last'.op = "start" /\ last'.tool = t
               /\ last'.res.ok => last'.spawn # {}]_vars

\* a stop has removed an External record without issuing any termination
C13_Witness ==
    /\ last.op = "stop"
    /\ "external" \in last.obs
    /\ last.kills = {}
    /\ last.tool \notin DOMAIN external_pids

\* C14 as stated: no operation takes a tool from an External record to an
\* Owned one, or from an Owned record to an External one, in one call.
C14_NoDirectEdge ==
    [][\A t \in AllTools :
         /\ ~(t \in DOMAIN external_pids /\ t \in DOMAIN spawned_processes')
         /\ ~(t \in DOMAIN spawned_processes /\ t \in DOMAIN external_pids')]_vars

\* C14 amended: no operation takes a tool from an Owned record to an External
\* one in one call, and the only call that takes a tool from an External
\* record to an Owned one is a start of that tool which cleared the External
\* record and recorded the child it spawned.
C14_NoDirectEdgeButRestart ==
    [][\A t \in AllTools :
         /\ ~(t \in DOMAIN spawned_processes /\ t \in DOMAIN external_pids')
         /\ (t \in DOMAIN external_pids /\ t \in DOMAIN spawned_processes')
            => /\ last'.op = "start" /\ last'.tool = t
               /\ "external" \in last'.obs.cleared
               /\ last'.spawn = {spawned_processes'[t]}
               /\ t \notin DOMAIN external_pids']_vars

\* a start has cleared an External record and recorded the child it spawned
C14_Witness ==
    /\ last.op = "start"
    /\ "external" \in last.obs.cleared
    /\ last.tool \in DOMAIN spawned_processes
    /\ last.spawn = {spawned_processes[last.tool]}

\* C15: in every reachable state the PID an External record holds is not the
\* PID of a process this hub has created, by start or by any other command
\* that launches a tool's binary.
C15_ExternalNotHubSpawned ==
    \A t \in DOMAIN external_pids :
        external_pids[t] \in DOMAIN procs => ~procs[external_pids[t]].child

\* C16: a start of a tool that has an External record asks the OS about the
\* recorded PID. On the answer "alive" the call returns Ok, spawns nothing and
\* leaves both maps and every process as they were; that answer is only given
\* for a PID some process holds. On the answer "not alive" (the only answer
\* for a PID no process holds) the record is removed and the call goes on to
\* locate and spawn: it ends with a spawn or with the locate or spawn error.
C16_ExternalRecheck ==
    [][\A t \in DOMAIN external_pids :
         (last'.op = "start" /\ last'.tool = t) =>
            /\ \/ /\ "external" \notin last'.obs.cleared
                  /\ last'.res.ok
                  /\ last'.spawn = {}
                  /\ external_pids[t] \in DOMAIN procs
                  /\ UNCHANGED <<spawned_processes, external_pids, procs>>
               \/ /\ "external" \in last'.obs.cleared
                  /\ t \notin DOMAIN external_pids'
                  /\ external_pids' = Remove(external_pids, t)
                  /\ \/ last'.spawn # {}
                     \/ /\ ~last'.res.ok
                        /\ last'.res.kind \in {"BinaryNotFound", "SpawnError"}
            /\ external_pids[t] \notin DOMAIN procs => "external" \in last'.obs.cleared
      ]_vars

\* a start found the External record's PID gone, removed the record and
\* spawned the tool, which it now owns
C16_Witness ==
    /\ last.op = "start"
    /\ "external" \in last.obs.cleared
    /\ last.res.ok
    /\ last.tool \in DOMAIN spawned_processes
    /\ last.tool \notin DOMAIN external_pids

\* C17: a stop of a tool that has an Owned record first asks the process to
\* end (graceful termination), force-kills only after that, and when it
\* returns the process is gone and the tool has no record of either kind.
C17_GracefulThenForce ==
    [][\A t \in DOMAIN spawned_processes :
         (last'.op = "stop" /\ last'.tool = t) =>
            /\ <<"graceful", spawned_processes[t]>> \in last'.kills
            /\ spawned_processes[t] \notin DOMAIN procs'
            /\ t \notin DOMAIN spawned_processes' \cup DOMAIN external_pids'
      ]_vars

\* C18: a stop of a tool that has an External record issues a forceful
\* termination against the recorded PID, issues no graceful one, and removes
\* the record whatever the termination achieved.
C18_ForceExternal ==
    [][\A t \in DOMAIN external_pids \ DOMAIN spawned_processes :
         (last'.op = "stop" /\ last'.tool = t) =>
            /\ <<"force", external_pids[t]>> \in last'.kills
            /\ <<"graceful", external_pids[t]>> \notin last'.kills
            /\ t \notin DOMAIN external_pids'
      ]_vars

\* C19: stop returns an error exactly when the forced termination it issued
\* failed; a wait that ran out without the process exiting is not an error.
C19_FailureReported ==
    [][last'.op = "stop" => (last'.res.ok <=> "kill failed" \notin last'.obs)]_vars

\* C20: a status call answers from the records alone: Running exactly when
\* the tool has an Owned or an External record, Stopped otherwise, whatever
\* the processes of the OS are; it leaves both maps and every process as
\* they were.
C20_StatusPureRead ==
    [][last'.op = "status" =>
         /\ last'.obs \in {"Running", "Stopped"}
         /\ last'.obs = "Running" <=>
               last'.tool \in DOMAIN spawned_processes \cup DOMAIN external_pids
         /\ last'.res.ok /\ last'.spawn = {} /\ last'.kills = {}
         /\ UNCHANGED <<spawned_processes, external_pids, procs>>
      ]_vars

\* status answered Running for an External record whose PID no process
\* holds any more: a probe of the OS would have said otherwise
C20_Witness ==
    /\ last.op = "status"
    /\ last.obs = "Running"
    /\ last.tool \in DOMAIN external_pids
    /\ last.tool \notin DOMAIN spawned_processes
    /\ external_pids[last.tool] \notin DOMAIN procs

\* C21: refresh_statuses removes the Owned record of exactly the tools whose
\* child has exited and keeps, with the same handle, the record of every tool
\* whose child is alive; external_pids is unchanged, a tool without a record
\* gets none, no process other than the exited children is touched, and the
\* outcome is decided by the handles alone, not by a process listing.
C21_RefreshExact ==
    [][last'.op = "refresh" =>
         LET exited == {t \in DOMAIN spawned_processes :
                          procs[spawned_processes[t]].st = "exited"}
         IN  /\ last'.obs.exited_spawned = exited
             /\ DOMAIN spawned_processes' = DOMAIN spawned_processes \ exited
             /\ \A t \in DOMAIN spawned_processes' :
                    /\ spawned_processes'[t] = spawned_processes[t]
                    /\ procs'[spawned_processes[t]] = procs[spawned_processes[t]]
             /\ external_pids' = external_pids
             /\ \A p \in DOMAIN procs :
                    p \notin {spawned_processes[t] : t \in exited} =>
                       p \in DOMAIN procs' /\ procs'[p] = procs[p]
             /\ last'.kills = {} /\ last'.spawn = {}
      ]_vars

\* a refresh removed the record of a tool whose child had exited and kept
\* the record of another tool whose child is alive
C21_Witness ==
    /\ last.op = "refresh"
    /\ last.obs.exited_spawned # {}
    /\ \E t \in DOMAIN spawned_processes : procs[spawned_processes[t]].st = "alive"
    /\ \A t \in last.obs.exited_spawned : t \notin DOMAIN spawned_processes

\* C22: after a full_scan every tool that had no record and whose expected
\* executable name is in the snapshot has an External record holding the
\* snapshot's PID for that name; every tool that had no record and whose name
\* is not in the snapshot still has none; every tool that was Owned is Owned
\* with the same handle and has no External record, whether or not its own
\* process is in the snapshot.
C22_ScanAdoption ==
    [][last'.op = "scan" =>
         LET running == last'.obs.running
         IN  /\ spawned_processes' = spawned_processes
             /\ \A t \in AllTools :
                   IF t \in DOMAIN spawned_processes
                     THEN t \notin DOMAIN external_pids'
                   ELSE IF t \notin DOMAIN external_pids
                     THEN IF ScanKey(t) \in DOMAIN running
                            THEN /\ t \in DOMAIN external_pids'
                                 /\ external_pids'[t] = running[ScanKey(t)]
                                 /\ t \in last'.obs.adopted
                            ELSE t \notin DOMAIN external_pids'
                   ELSE TRUE
      ]_vars

\* a scan whose snapshot listed an owned child under its tool's name, left
\* that tool Owned, and adopted another tool as External
C22_Witness ==
    /\ last.op = "scan"
    /\ last.obs.adopted # {}
    /\ \E t \in DOMAIN spawned_processes :
          /\ ScanKey(t) \in DOMAIN last.obs.running
          /\ last.obs.running[ScanKey(t)] = spawned_processes[t]
          /\ t \notin DOMAIN external_pids

C24_OneSpawnAttempt ==
    [][\A t \in AllTools :
         (last'.op = "start" /\ last'.tool = t) =>
            /\ Cardinality(last'.spawn) <= 1
            /\ DOMAIN procs' \ DOMAIN procs \subseteq last'.spawn
            /\ ~last'.res.ok =>
                  /\ t \notin DOMAIN spawned_processes'
                  /\ t \notin DOMAIN external_pids'
                  /\ DOMAIN procs' \subseteq DOMAIN procs
                  /\ last'.spawn \cap DOMAIN procs' = {}
                  /\ last'.res.kind \in {"BinaryNotFound", "SpawnError"} => last'.spawn = {}
                  /\ last'.res.kind \in {"Exited", "CheckFailed"} => Cardinality(last'.spawn) = 1
      ]_vars

\* a start whose spawn failed: nothing was created and the tool has no record
C24_Witness ==
    /\ last.op = "start"
    /\ ~last.res.ok /\ last.res.kind = "SpawnError"
    /\ last.spawn = {}
    /\ last.tool \notin DOMAIN spawned_processes \cup DOMAIN external_pids

\* C25: a start or a stop of tool i, whatever it returns, leaves every other
\* tool j with the record it had (the same handle, the same PID, or none).
\* When the start returned an error, or the stop's forced termination failed,
\* the process behind every record of j (unless it is i's own child, which a
\* stale External PID of j may name) is also as it was, so that a later
\* operation on j meets the state it would have met without the call.
C25_OtherToolsUntouched ==
    [][\A i \in AllTools :
         (last'.op \in {"start", "stop"} /\ last'.tool = i) =>
            \A j \in AllTools \ {i} :
               /\ j \in DOMAIN spawned_processes' <=> j \in DOMAIN spawned_processes
               /\ j \in DOMAIN external_pids' <=> j \in DOMAIN external_pids
               /\ j \in DOMAIN spawned_processes =>
                     spawned_processes'[j] = spawned_processes[j]
               /\ j \in DOMAIN external_pids => external_pids'[j] = external_pids[j]
               /\ (\/ last'.op = "start" /\ ~last'.res.ok
                   \/ last'.op = "stop" /\ "kill failed" \in last'.obs) =>
                     \A p \in (IF j \in DOMAIN spawned_processes
                                 THEN {spawned_processes[j]} ELSE {}) \cup
                               (IF j \in DOMAIN external_pids
                                 THEN {external_pids[j]} \cap DOMAIN procs ELSE {}) :
                        (i \in DOMAIN spawned_processes => p # spawned_processes[i]) =>
                           p \in DOMAIN procs' /\ procs'[p] = procs[p]
      ]_vars

\* a start of one tool failed while another tool is Owned with a live child
C25_Witness ==
    /\ last.op = "start"
    /\ ~last.res.ok
    /\ \E j \in DOMAIN spawned_processes :
          j # last.tool /\ procs[spawned_processes[j]].st = "alive"

\* C26: while a command runs start, stop, full_scan or refresh_statuses (from
\* the moment its write() returned until its guard is dropped) it is the
\* lock's writer, the lock has no reader and no other command is inside a
\* ProcessManager call of either kind; while a command reads the statuses it
\* is among the lock's readers and the lock has no writer. So no call sees or
\* changes the maps between two steps of another call.
C26_ExclusiveAccess ==
    \A c \in Threads :
       /\ cmds[c].pc \in {"locked", "grace", "unlock"} =>
             /\ rwlock.writer = Some(c)
             /\ rwlock.readers = {}
             /\ \A d \in Threads \ {c} :
                   cmds[d].pc \notin {"locked", "grace", "unlock", "reading", "read done"}
       /\ cmds[c].pc \in {"reading", "read done"} =>
             /\ c \in rwlock.readers
             /\ rwlock.writer = None

\* one command is inside start with the write guard held while another,
\* invoked meanwhile, waits for the lock
C26_Witness ==
    \E c, d \in Threads :
       /\ c # d
       /\ cmds[c].pc = "locked" /\ cmds[c].cmd = "start_tool"
       /\ cmds[d].pc \in {"write", "read"}

\* C27: the hotkey arguments are a function of tool and configuration.
\* DeskTalk and TypoFix get none. With a named hotkey configured,
\* SpeakSelected and QuickAssistant get --ptt-key <key>, FlattenString and
\* OcrPaste get --trigger-key <key>, whatever the special hotkey is. With only
\* a special hotkey configured, SpeakSelected and QuickAssistant get
\* --special-ptt-key <code in decimal>, FlattenString and OcrPaste get none.
\* With neither configured nothing is passed. The arguments are zero or two.
C27_HotkeyArgs ==
    last.op = "add_hotkey_args" =>
        LET t == last.tool
            named == last.obs.tool_config.hotkey
            special == last.obs.tool_config.special_hotkey
            args == last.obs.args
            decimal == IF special = Some(124) THEN "124" ELSE "125"
        IN  /\ Len(args) \in {0, 2}
            /\ t \in {"DeskTalk", "TypoFix"} => args = <<>>
            /\ (t \in {"SpeakSelected", "QuickAssistant"} /\ named # None) =>
                    args = <<"--ptt-key", named[1]>>
            /\ (t \in {"FlattenString", "OcrPaste"} /\ named # None) =>
                    args = <<"--trigger-key", named[1]>>
            /\ (t \in {"SpeakSelected", "QuickAssistant"} /\ named = None /\ special # None) =>
                    args = <<"--special-ptt-key", decimal>>
            /\ (t \in {"FlattenString", "OcrPaste"} /\ named = None) => args = <<>>
            /\ (named = None /\ special = None) => args = <<>>

\* both hotkeys are configured for SpeakSelected: the named one is passed
C27_Witness ==
    /\ last.op = "add_hotkey_args"
    /\ last.tool = "SpeakSelected"
    /\ last.obs.tool_config.hotkey = Some("F14")
    /\ last.obs.tool_config.special_hotkey = Some(124)
    /\ last.obs.args = <<"--ptt-key", "F14">>

\* C28 as stated: locate returns the first existing candidate of one list, the
\* cached still-existing path, then the hub executable's directory, its tools
\* subdirectory, its resources/tools subdirectory, then the development
\* build-output directories, and None when none exists.
C28_OneProbeList ==
    last.op \in {"find_binary", "registry find_binary"} =>
        LET o == last.obs
        IN  last.obs.found =
                IF o.binary_path # None /\ o.exists THEN o.binary_path
                ELSE IF o.fs = {} THEN None
                ELSE Some(Candidates[CHOOSE i \in o.fs : \A j \in o.fs : i <= j])

\* C28 amended: ProcessManager::find_binary, the locator start uses, has no
\* cached path and returns the first existing of the hub executable's
\* directory, its tools subdirectory, its resources/tools subdirectory and the
\* eight development build-output directories, in that order, None when none
\* exists. ToolRegistry::find_binary returns the cached path when it is set and
\* exists, else the first existing of the hub executable's directory and its
\* tools subdirectory, and None otherwise, whatever else exists. Neither raises
\* an error and the result is determined by the cached path and the files.
C28_TwoLocators ==
    LET o == last.obs
    IN  /\ last.op = "find_binary" =>
            /\ last.res.ok
            /\ o.fs = {} <=> o.found = None
            /\ o.fs # {} => \E i \in o.fs : /\ o.found = Some(Candidates[i])
                                              /\ \A j \in o.fs : i <= j
        /\ last.op = "registry find_binary" =>
            /\ last.res.ok
            /\ (o.binary_path # None /\ o.exists) => o.found = o.binary_path
            /\ ~(o.binary_path # None /\ o.exists) =>
                    o.found = IF 1 \in o.fs THEN Some("exe_dir")
                              ELSE IF 2 \in o.fs THEN Some("exe_dir/tools")
                              ELSE None

\* ProcessManager::find_binary on a file system with two candidates: the
\* resources/tools one comes before the development one
C28_Witness ==
    /\ last.op = "find_binary"
    /\ last.obs.fs = {3, 5}
    /\ last.obs.found = Some("exe_dir/resources/tools")

\* C29: the snapshot maps each lowercased executable name of the listing to
\* exactly one PID, and when several listed processes share a name the PID is
\* that of the last of them in the listing.
C29_LastListedWins ==
    last.op = "snapshot" =>
        LET stdout == last.obs.stdout
            result == last.obs.result
            rows(n) == {i \in 1..Len(stdout) : /\ stdout[i].pid # None
                                               /\ to_lowercase(stdout[i].name) = n}
        IN  /\ DOMAIN result = {to_lowercase(stdout[i].name) :
                                    i \in {j \in 1..Len(stdout) : stdout[j].pid # None}}
            /\ \A n \in DOMAIN result :
                   \E i \in rows(n) : /\ \A j \in rows(n) : j <= i
                                       /\ result[n] = stdout[i].pid[1]

\* two processes whose names differ only in case are listed, PID 2 before
\* PID 1: the snapshot holds PID 1 under the lowercased name
C29_Witness ==
    /\ last.op = "snapshot"
    /\ Len(last.obs.stdout) = 2
    /\ last.obs.stdout[1] = [name |-> MixedCaseName, pid |-> Some(2)]
    /\ last.obs.stdout[2] = [name |-> Suffixed("speak-selected"), pid |-> Some(1)]
    /\ last.obs.result = [n \in {Suffixed("speak-selected")} |-> 1]

C31_TrialOnce ==
    [][/\ license.trial_started =>
            /\ license'.trial_started
            /\ license'.trial_expiration = license.trial_expiration
       /\ ( /\ cmds[MainThread].pc = "loaded" /\ cmds'[MainThread] = Idle
            /\ last'.res.ok ) => ~license.trial_started
      ]_vars

\* C32: a start on a tool whose Owned process has exited removes the stale
\* record and goes on to spawn. When it returns Ok the tool is Owned with the
\* handle of a process this call created, which was alive at the re-check
\* after the grace window; it never returns Ok on the strength of the stale
\* record. Otherwise it returns an error and the tool is Unmanaged.
C32_RestartAfterExit ==
    [][\A t \in Tools :
         ( /\ last'.op = "start" /\ last'.tool = t
           /\ t \in DOMAIN spawned_processes
           /\ procs[spawned_processes[t]].st = "exited" )
         => /\ "owned" \in last'.obs.cleared
            /\ IF last'.res.ok
                  THEN /\ t \in DOMAIN spawned_processes'
                       /\ last'.spawn = {spawned_processes'[t]}
                       /\ procs'[spawned_processes'[t]].st = "alive"
                       /\ procs'[spawned_processes'[t]].via = "start"
                  ELSE /\ t \notin DOMAIN spawned_processes'
                       /\ t \notin DOMAIN external_pids'
                       /\ get_status(t)' = "Stopped"
                       /\ \A p \in last'.spawn : p \notin DOMAIN procs'
      ]_vars

\* a start found the tool's child exited and the tool is Owned again, by a
\* child this start spawned
C32_Witness ==
    /\ last.op = "start" /\ last.res.ok
    /\ "owned" \in last.obs.cleared
    /\ last.tool \in DOMAIN spawned_processes
    /\ last.spawn = {spawned_processes[last.tool]}

\* the tool's record names a process that has ended: the child behind an
\* Owned record has exited, or the PID of an External record is no longer a
\* running process of the tool's executable
OwnedGone(t) ==
    t \in DOMAIN spawned_processes /\ procs[spawned_processes[t]].st = "exited"

ExternalGone(t) ==
    /\ t \in DOMAIN external_pids
    /\ ~( /\ external_pids[t] \in Listed
          /\ to_lowercase(procs[external_pids[t]].exe) = ScanKey(t) )

\* C33: the exit of a tracked process changes no reported status: the tool is
\* reported Running as before. A refresh_statuses leaves every tool whose Owned
\* child had exited without record, reported Stopped; a full_scan leaves every
\* tool whose External PID was no longer a running process of its executable
\* either reported Stopped, or with a record of the PID the snapshot lists
\* under its name. With the two polls invoked again and again, a tool whose
\* record names an ended process is eventually reported Stopped, unless its
\* record has come to name a running process by then.
C33_PolledToStopped ==
    /\ [][\A t \in AllTools :
            /\ last'.op = "os" => get_status(t)' = get_status(t)
            /\ (last'.op = "refresh" /\ OwnedGone(t)) => get_status(t)' = "Stopped"
            /\ (last'.op = "scan" /\ ExternalGone(t)) =>
                   \/ get_status(t)' = "Stopped"
                   \/ /\ t \in DOMAIN external_pids'
                      /\ ScanKey(t) \in DOMAIN last'.obs.running
                      /\ external_pids'[t] = last'.obs.running[ScanKey(t)]
                      /\ ~ExternalGone(t)'
         ]_vars
    /\ \A t \in CommandTools :
          (OwnedGone(t) \/ ExternalGone(t))
             ~> (get_status(t) = "Stopped" \/ ~(OwnedGone(t) \/ ExternalGone(t)))

\* a refresh_statuses has found the exited child of a tool, which is now
\* reported Stopped
C33_Witness ==
    /\ last.op = "refresh"
    /\ last.obs.exited_spawned # {}
    /\ \A t \in last.obs.exited_spawned : get_status(t) = "Stopped"

\* C34: starts of one tool invoked on two threads are serialized by the write
\* lock each holds for its whole call, the grace window included. At any
\* moment at most one handle of a child of the tool is held, in the map or by
\* a start in its grace window; a start spawns only when the tool has no
\* Owned record of a live child and no other start is in its grace window,
\* and it inserts its child only when the map holds no handle for the tool.
C34_StartsSerialized ==
    /\ [](\A t \in CommandTools :
            Cardinality({c \in Threads : cmds[c].pc = "grace" /\ cmds[c].tool = t})
              + (IF t \in DOMAIN spawned_processes THEN 1 ELSE 0) <= 1)
    /\ [][\A c \in Threads :
            /\ (cmds[c].pc = "locked" /\ cmds'[c].pc = "grace") =>
                  /\ cmds[c].tool \in DOMAIN spawned_processes =>
                        procs[spawned_processes[cmds[c].tool]].st = "exited"
                  /\ \A d \in Threads \ {c} : cmds[d].pc # "grace"
            /\ (cmds[c].pc = "grace" /\ cmds'[c].pc = "unlock") =>
                  /\ cmds[c].tool \notin DOMAIN spawned_processes
                  /\ last'.res.ok => spawned_processes' =
                                        Insert(spawned_processes, cmds[c].tool, cmds[c].pid)
         ]_vars

\* a start has returned Ok to one thread, whose child is in the map, while
\* the start of the same tool invoked on the other thread waits for the lock
C34_Witness ==
    \E c, d \in Threads :
       /\ c # d
       /\ cmds[c].pc = "unlock" /\ cmds[c].cmd = "start_tool"
       /\ last.op = "start" /\ last.res.ok /\ last.spawn # {}
       /\ cmds[c].tool \in DOMAIN spawned_processes
       /\ cmds[d].pc = "write" /\ cmds[d].cmd = "start_tool" /\ cmds[d].tool = cmds[c].tool

\* C35: a stop returns Ok in every state it is called in and whatever became
\* of its termination attempts, and when it has returned the tool has no
\* record of either kind and is reported Stopped.
C35_StopAlwaysSucceeds ==
    last.op = "stop" =>
        /\ last.res.ok
        /\ last.tool \notin DOMAIN spawned_processes
        /\ last.tool \notin DOMAIN external_pids
        /\ get_status(last.tool) = "Stopped"

\* a stop whose termination attempt failed
C35_Witness ==
    /\ last.op = "stop"
    /\ "kill failed" \in last.obs
    /\ last.res.ok
    /\ get_status(last.tool) = "Stopped"

\* C36: after a full_scan every External record holds the PID the scan's
\* snapshot lists under the tool's executable name. A record the scan found
\* with another PID than the snapshot's has been replaced in that scan by a
\* record with the snapshot's PID, and the tool is reported Running.
C36_ScanFollowsSnapshot ==
    last.op = "scan" =>
        LET running == last.obs.running
        IN  /\ \A t \in DOMAIN external_pids :
                  /\ ScanKey(t) \in DOMAIN running
                  /\ external_pids[t] = running[ScanKey(t)]
            /\ \A t \in last.obs.exited_external :
                  ScanKey(t) \in DOMAIN running =>
                      /\ t \in last.obs.adopted
                      /\ t \in DOMAIN external_pids
                      /\ get_status(t) = "Running"

\* a full_scan found a record whose PID was not the snapshot's and replaced it
C36_Witness ==
    /\ last.op = "scan"
    /\ \E t \in last.obs.exited_external :
          /\ t \in last.obs.adopted
          /\ external_pids[t] = last.obs.running[ScanKey(t)]

\* C37: the forced termination a stop issues for an External record hits
\* nothing but a process of the tool's executable, and a start returns Ok
\* without spawning on the strength of an External record only when the
\* recorded PID is a running process of the tool's executable: a process of
\* another program that has taken the PID is neither terminated nor taken
\* for the tool.
C37_OnlyTheToolsProcess ==
    [][\A t \in Tools :
         /\ (last'.op = "stop" /\ last'.tool = t /\ t \in DOMAIN external_pids) =>
               \A k \in last'.kills :
                  (k[1] = "force" /\ k[2] \in Listed /\ k[2] \notin Listed') =>
                      to_lowercase(procs[k[2]].exe) = ScanKey(t)
         /\ ( /\ last'.op = "start" /\ last'.tool = t
              /\ t \notin DOMAIN spawned_processes /\ t \in DOMAIN external_pids
              /\ last'.res.ok /\ last'.spawn = {} ) =>
               /\ external_pids[t] \in Listed
               /\ to_lowercase(procs[external_pids[t]].exe) = ScanKey(t)
      ]_vars

\* C38: get_tool_statuses takes the read guard only after its refresh block
\* has given the write guard back, and reads all six statuses with that one
\* guard held: while a command is inside the loop no map changes, and the
\* map it returns has the six keys, each with the value "Stopped" or
\* "Running" that get_status gives for the tool in the state the call
\* returns in, whatever start, stop or scan other threads have invoked.
C38_StatusesOfOneState ==
    /\ [](\A c \in Threads :
             cmds[c].pc = "reading" => (c \in rwlock.readers /\ rwlock.writer = None))
    /\ [][\A c \in Threads :
            /\ (cmds[c].pc # "reading" /\ cmds'[c].pc = "reading") =>
                  /\ cmds[c].pc = "read" /\ cmds[c].cmd = "get_tool_statuses"
                  /\ c \notin rwlock.readers /\ c \in rwlock'.readers
            /\ cmds[c].pc = "reading" =>
                  /\ spawned_processes' = spawned_processes
                  /\ external_pids' = external_pids
                  /\ c \in rwlock'.readers
            /\ (cmds[c].pc = "reading" /\ cmds'[c].pc = "read done") =>
                  /\ last'.op = "statuses"
                  /\ DOMAIN last'.obs = {status_key(t) : t \in AllTools}
                  /\ Cardinality(DOMAIN last'.obs) = 6
                  /\ \A t \in AllTools :
                        /\ last'.obs[status_key(t)] = get_status(t)'
                        /\ last'.obs[status_key(t)] \in {"Stopped", "Running"}
       ]_vars

\* a command is inside the loop with a "Running" read while a stop invoked
\* on the other thread waits for the write guard
C38_Witness ==
    \E c, d \in Threads :
       /\ cmds[c].pc = "reading"
       /\ \E k \in DOMAIN cmds[c].statuses : cmds[c].statuses[k] = "Running"
       /\ cmds[d].pc = "write" /\ cmds[d].cmd = "stop_tool"

\* C39: the step in which the hub exits leaves every process as it was, the
\* tools the hub had spawned and the ones it had adopted included, and issues
\* no termination; once the hub has exited nothing but the operating system
\* acts, so neither stop nor stop_all runs on the way out or afterwards.
C39_ExitLeavesToolsRunning ==
    /\ [][(phase = "ready" /\ phase' = "exited") =>
            /\ last'.op = "quit"
            /\ last'.kills = {}
            /\ procs' = procs
            /\ \A t \in DOMAIN spawned_processes :
                  procs[spawned_processes[t]].st = "alive" =>
                      spawned_processes[t] \in Listed'
            /\ \A t \in DOMAIN external_pids :
                  external_pids[t] \in Listed => external_pids[t] \in Listed'
       ]_vars
    /\ [](phase = "exited" => last.op \in {"quit", "os"})

\* the hub has just exited holding an Owned record of one tool and an
\* External record of another, and both processes are running
C39_Witness ==
    /\ phase = "exited"
    /\ last.op = "quit"
    /\ \E t \in DOMAIN last.obs.spawned_processes :
          last.obs.spawned_processes[t] \in Listed
    /\ \E t \in DOMAIN last.obs.external_pids :
          /\ last.obs.external_pids[t] \in Listed
          /\ to_lowercase(procs[last.obs.external_pids[t]].exe) = ScanKey(t)

====
